---- MODULE Spec2Model ----
(***************************************************************************)
(* A model of frank2/avltree (include/avltree.hpp): the node graph of      *)
(* AVLTreeBase, its search / insert / remove / retrace algorithms and the  *)
(* AVLTree (set) and AVLMap (map) front ends.                              *)
(*                                                                         *)
(* A tree object is the record                                             *)
(*   [kind, base, root, size, node, err, out]                              *)
(* where node is the heap (a function from the addresses of the allocated  *)
(* nodes to their fields), err the exception in flight ("none" when there  *)
(* is none) and out the value the running function returns.  Every         *)
(* function of the source is an operator from tree records to tree         *)
(* records that performs the source's assignments in the source's order.   *)
(*                                                                         *)
(* Addresses.  std::make_shared returns some fresh address; the model      *)
(* names the node allocated for key k by base + k, where base is 1 for the *)
(* first tree object and Tree2Base for the second.  The node of a key is   *)
(* released (its last shared_ptr dropped) before the key can be allocated  *)
(* again, see Release.                                                     *)
(***************************************************************************)
EXTENDS Integers, Sequences, FiniteSets, TLC

\* kind, root, size, node: the tree object (its KeyOfValue flavour, _root, _size
\* and the nodes allocated).  ret: how the last call ended.  present: the keys
\* inserted with success and not removed since (what the caller knows the tree
\* to hold; no code reads it).  tree2: a second tree object of the same
\* class (whether it is constructed, its _root and its _size); its nodes live
\* in the same heap, node.
VARIABLES kind, root, size, node, ret, present, tree2

vars == <<kind, root, size, node, ret, present, tree2>>

-----------------------------------------------------------------------------
(* Bounds and constants *)

\* keys of the map specification (Spec) are 1..MaxKey
MaxKey == 4

\* keys of the set specification (SpecTree) are 1..MaxTreeKey
MaxTreeKey == 7

\* nullptr
Nil == 0

\* Value(): the value-initialised mapped value that operator[] inserts
DefaultMapped == 0

\* the mapped values a caller passes in
Mapped == {DefaultMapped, 1}

Keys == 1..MaxKey

TreeKeys == 1..MaxTreeKey

\* the keys inserted and removed after a tree was built from a vector
\* (SpecVec) are MinVecKey..MaxVecKey
MinVecKey == 4

MaxVecKey == 6

VecKeys == MinVecKey..MaxVecKey

\* a tree built from a vector is destroyed while its _size is below MaxVecSize
MaxVecSize == 14

\* the values inserted one at a time by the specification SpecBuild are
\* 1..MaxBuildKey, and at most MaxBuildLen of them are inserted
MaxBuildKey == 5

MaxBuildLen == 6

BuildKeys == 1..MaxBuildKey

\* the keys of the specification that counts its inserts (SpecCount) are
\* 1..MaxCountKey, and it makes at most MaxInserts inserts that add a node
MaxCountKey == 7

MaxInserts == 8

CountKeys == 1..MaxCountKey

\* the keys of the specification of the map whose mapped values are assigned
\* (SpecAssign) are 1..MaxAssignKey
MaxAssignKey == 3

AssignKeys == 1..MaxAssignKey

\* the keys of the specification that only inserts (SpecInserts) are
\* 1..MaxInsertKey
MaxInsertKey == 6

InsertKeys == 1..MaxInsertKey

\* the keys of the specification that runs the retrace one loop iteration at a
\* time (SpecRetrace) are 1..MaxRetraceKey
MaxRetraceKey == 4

RetraceKeys == 1..MaxRetraceKey

\* keys of the specification of two trees (SpecCopy) are 1..MaxCopyKey
MaxCopyKey == 3

CopyKeys == 1..MaxCopyKey

\* in SpecCopy insert is called while _size is below MaxSize, and remove on
\* the second tree while its _size is above zero
MaxSize == MaxCopyKey + 1

\* the values an uninitialised _size is read as
Indeterminate == {0, MaxCopyKey + 1}

\* the addresses of the nodes of the second tree object start here
Tree2Base == 100

\* std::less<Key>
KeyCompare(a, b) == a < b

\* KeyIsValue::operator()
KeyIsValue(value) == value

\* KeyOfPair::operator()
KeyOfPair(value) == value[1]

\* the KeyOfValue template argument: KeyIsValue in AVLTree, KeyOfPair in AVLMap
KeyOfValue(k, value) == IF k = "set" THEN KeyIsValue(value) ELSE KeyOfPair(value)

-----------------------------------------------------------------------------
(* Node *)

\* NewNode with a fault: the node is built by Node() and keeps the key only, the
\* mapped value stays value-initialised
NewNode_default_mapped(value) ==
  [value |-> <<value[1], DefaultMapped>>, height |-> 0, parent |-> Nil,
   left |-> Nil, right |-> Nil]

\* Node(const Value &value)
NewNode(value) ==
  [value |-> value, height |-> 0, parent |-> Nil, left |-> Nil, right |-> Nil]

\* Node::key
key(t, n) == KeyOfValue(t.kind, t.node[n].value)

\* Node::is_leaf
is_leaf(t, n) == t.node[n].left = Nil /\ t.node[n].right = Nil

\* compare with a fault: the results for less and greater are swapped
compare_swapped(t, n, k) ==
  LET ab == KeyCompare(k, key(t, n))
      ba == KeyCompare(key(t, n), k)
  IN  IF ~ab /\ ~ba THEN 0
      ELSE IF ab /\ ~ba THEN 1
      ELSE -1

\* compare with a fault: the test for neither less nor greater is left out
compare_never_equal(t, n, k) ==
  LET ab == KeyCompare(k, key(t, n))
      ba == KeyCompare(key(t, n), k)
  IN  IF ab /\ ~ba THEN -1
      ELSE 1

\* Node::compare(const Key &)
compare(t, n, k) ==
  LET ab == KeyCompare(k, key(t, n))
      ba == KeyCompare(key(t, n), k)
  IN  IF ~ab /\ ~ba THEN 0
      ELSE IF ab /\ ~ba THEN -1
      ELSE 1

\* Node::balance
balance(t, n) ==
  LET left_height  == IF t.node[n].left # Nil THEN t.node[t.node[n].left].height ELSE 0
      right_height == IF t.node[n].right # Nil THEN t.node[t.node[n].right].height ELSE 0
  IN  right_height - left_height

\* Node::new_height
new_height(t, n) ==
  LET left_height  == IF t.node[n].left # Nil THEN t.node[t.node[n].left].height ELSE 0
      right_height == IF t.node[n].right # Nil THEN t.node[t.node[n].right].height ELSE 0
  IN  (IF left_height >= right_height THEN left_height ELSE right_height) + 1

-----------------------------------------------------------------------------
(* Exceptions *)

\* throw exception::e
Throw(t, e) == [t EXCEPT !.err = e]

\* operator-> on a null shared_ptr: the process faults
NullDeref(t) == [t EXCEPT !.err = "SIGSEGV"]

-----------------------------------------------------------------------------
(* Assignments to the fields of the tree and of a node *)

\* this->_root = v
put_root(t, v) == [t EXCEPT !.root = v]

\* n->_left = v
put_left(t, n, v) == [t EXCEPT !.node[n].left = v]

\* n->_right = v
put_right(t, n, v) == [t EXCEPT !.node[n].right = v]

\* n->_parent = v
put_parent(t, n, v) == [t EXCEPT !.node[n].parent = v]

\* n->_height = v
put_height(t, n, v) == [t EXCEPT !.node[n].height = v]

\* if (n != nullptr) n->_parent = v
put_parent_if(t, n, v) == IF n # Nil THEN put_parent(t, n, v) ELSE t

\* n->_height = n->new_height()
refresh_height(t, n) == put_height(t, n, new_height(t, n))

\* if (p->_left == old) p->_left = new; else if (p->_right == old) p->_right = new
replace_child(t, p, old, new) ==
  IF t.node[p].left = old THEN put_left(t, p, new)
  ELSE IF t.node[p].right = old THEN put_right(t, p, new)
  ELSE t

\* the value a function returns
return(t, v) == [t EXCEPT !.out = v]

-----------------------------------------------------------------------------
(* AVLTreeBase, protected part *)

\* set_right_child
set_right_child(t, target, child) ==
  IF t.err # "none" THEN t
  ELSE IF target = Nil THEN Throw(t, "NullPointer")
  ELSE put_parent_if(put_right(t, target, child), child, target)

\* set_left_child
set_left_child(t, target, child) ==
  IF t.err # "none" THEN t
  ELSE IF target = Nil THEN Throw(t, "NullPointer")
  ELSE put_parent_if(put_left(t, target, child), child, target)

\* rotate_replace with a fault: this->_root is not updated when the rotation
\* root has no parent
rotate_replace_keeps_root(t, rotation_parent, rotation_root, pivot_root) ==
  IF rotation_parent = Nil THEN t
  ELSE replace_child(t, rotation_parent, rotation_root, pivot_root)

\* rotate_left and rotate_right: the pivot takes the rotation root's place
\* under rotation_parent, or as the root
rotate_replace(t, rotation_parent, rotation_root, pivot_root) ==
  IF rotation_parent = Nil THEN put_root(t, pivot_root)
  ELSE replace_child(t, rotation_parent, rotation_root, pivot_root)

\* rotate_left, from the locals pivot_root, left_child and rotation_parent on
rotate_left_links(t, rotation_root, pivot_root, left_child, rotation_parent) ==
  LET t1 == rotate_replace(t, rotation_parent, rotation_root, pivot_root)
      t2 == put_parent(t1, pivot_root, rotation_parent)
      t3 == put_parent_if(t2, left_child, rotation_root)
      t4 == put_right(t3, rotation_root, left_child)
      t5 == put_left(t4, pivot_root, rotation_root)
      t6 == put_parent(t5, rotation_root, pivot_root)
      t7 == refresh_height(t6, rotation_root)
  IN  refresh_height(t7, pivot_root)

\* rotate_left
rotate_left(t, rotation_root) ==
  IF t.err # "none" THEN t
  ELSE IF rotation_root = Nil THEN Throw(t, "NullPointer")
  ELSE IF t.node[rotation_root].right = Nil THEN NullDeref(t)
  ELSE rotate_left_links(t, rotation_root, t.node[rotation_root].right,
                         t.node[t.node[rotation_root].right].left,
                         t.node[rotation_root].parent)

\* rotate_right, from the locals pivot_root, right_child and rotation_parent on
rotate_right_links(t, rotation_root, pivot_root, right_child, rotation_parent) ==
  LET t1 == rotate_replace(t, rotation_parent, rotation_root, pivot_root)
      t2 == put_parent(t1, pivot_root, rotation_parent)
      t3 == put_parent_if(t2, right_child, rotation_root)
      t4 == put_left(t3, rotation_root, right_child)
      t5 == put_right(t4, pivot_root, rotation_root)
      t6 == put_parent(t5, rotation_root, pivot_root)
      t7 == refresh_height(t6, rotation_root)
  IN  refresh_height(t7, pivot_root)

\* rotate_right
rotate_right(t, rotation_root) ==
  IF t.err # "none" THEN t
  ELSE IF rotation_root = Nil THEN Throw(t, "NullPointer")
  ELSE IF t.node[rotation_root].left = Nil THEN NullDeref(t)
  ELSE rotate_right_links(t, rotation_root, t.node[rotation_root].left,
                          t.node[t.node[rotation_root].left].right,
                          t.node[rotation_root].parent)

\* child_balance with a fault: the sign of the child's balance is inverted
child_balance_negated(t, child) == IF child # Nil THEN 0 - balance(t, child) ELSE 0

\* rebalance_node: (child != nullptr) ? child->balance() : 0
child_balance(t, child) == IF child # Nil THEN balance(t, child) ELSE 0

\* rebalance_node with a fault: the balance of the child is not looked at and
\* the rotation is always a single one
rebalance_node_single(t, n) ==
  IF t.err # "none" THEN t
  ELSE IF n = Nil THEN Throw(t, "NullPointer")
  ELSE IF balance(t, n) = 0 THEN t
  ELSE IF balance(t, n) < 0 THEN rotate_right(t, n)
  ELSE rotate_left(t, n)

\* rebalance_node
rebalance_node(t, n) ==
  IF t.err # "none" THEN t
  ELSE IF n = Nil THEN Throw(t, "NullPointer")
  ELSE IF balance(t, n) = 0 THEN t
  ELSE IF balance(t, n) < 0 THEN
    IF child_balance(t, t.node[n].left) > 0
      THEN rotate_right(rotate_left(t, t.node[n].left), n)
    ELSE rotate_right(t, n)
  ELSE
    IF child_balance(t, t.node[n].right) < 0
      THEN rotate_left(rotate_right(t, t.node[n].right), n)
    ELSE rotate_left(t, n)

\* next_update with a fault: the loop never moves to the parent
next_update_stays(t, update) == update

\* update_node: if (update->_parent != nullptr) update = update->_parent
next_update(t, update) ==
  IF t.node[update].parent # Nil THEN t.node[update].parent ELSE update

\* update_iteration with a fault: update->_height = new_height is left out
update_iteration_height_kept(t, update) ==
  IF balance(t, update) > 1 \/ balance(t, update) < -1
    THEN [tree |-> t, update |-> update, next |-> "rebalance_node"]
  ELSE IF t.node[update].height = new_height(t, update)
    THEN [tree |-> t, update |-> update, next |-> "return"]
  ELSE [tree |-> t, update |-> next_update(t, update), next |-> "update_node"]

\* update_node: one iteration of the while loop, entered with the local
\* update: the tree it leaves, the local update it leaves, and where it goes
\* next: to the call of rebalance_node(update) that is followed by a return,
\* to a return, or to the loop's head
update_iteration(t, update) ==
  IF balance(t, update) > 1 \/ balance(t, update) < -1
    THEN [tree |-> refresh_height(t, update), update |-> update,
          next |-> "rebalance_node"]
  ELSE IF t.node[update].height = new_height(t, update)
    THEN [tree |-> refresh_height(t, update), update |-> update, next |-> "return"]
  ELSE [tree |-> refresh_height(t, update), update |-> next_update(t, update),
        next |-> "update_node"]

\* update_node: the while loop, entered with update; old_height, new_height
\* and balance are read before update->_height = new_height
RECURSIVE update_loop(_, _)
update_loop(t, update) ==
  IF update = Nil THEN t
  ELSE IF balance(t, update) > 1 \/ balance(t, update) < -1
    THEN rebalance_node(refresh_height(t, update), update)
  ELSE IF t.node[update].height = new_height(t, update)
    THEN refresh_height(t, update)
  ELSE update_loop(refresh_height(t, update), next_update(t, update))

\* update_node
update_node(t, n) ==
  IF t.err # "none" THEN t
  ELSE IF n = Nil THEN Throw(t, "NullPointer")
  ELSE update_loop(t, n)

\* update_node: where the while loop ends and why: by the return after
\* rebalance_node ("rebalance") or by the return on old_height == new_height
\* ("unchanged"); tree is the tree at that point, before rebalance_node runs
RECURSIVE update_stop(_, _)
update_stop(t, update) ==
  IF balance(t, update) > 1 \/ balance(t, update) < -1
    THEN [node |-> update, why |-> "rebalance", tree |-> refresh_height(t, update)]
  ELSE IF t.node[update].height = new_height(t, update)
    THEN [node |-> update, why |-> "unchanged", tree |-> refresh_height(t, update)]
  ELSE update_stop(refresh_height(t, update), next_update(t, update))

\* allocate_node: the address of the node made for value
NodeAddress(t, value) == t.base + KeyOfValue(t.kind, value)

\* allocate_node
allocate_node(t, value) ==
  [t EXCEPT !.node = [m \in (DOMAIN t.node) \cup {NodeAddress(t, value)} |->
                        IF m = NodeAddress(t, value) THEN NewNode(value)
                        ELSE t.node[m]],
            !.out = NodeAddress(t, value)]

\* search_step with a fault: the walk goes left whatever the branch
search_step_left_only(t, n, branch) == t.node[n].left

\* search: node = (branch < 0) ? node->_left : node->_right
search_step(t, n, branch) == IF branch < 0 THEN t.node[n].left ELSE t.node[n].right

\* search: if (node != nullptr) branch = node->compare(key)
search_branch(t, n, branch, k) == IF n # Nil THEN compare(t, n, k) ELSE branch

\* search: the while loop and the final push_back
RECURSIVE search_loop(_, _, _, _, _)
search_loop(t, n, branch, k, result) ==
  IF branch # 0 /\ n # Nil THEN
    search_loop(t, search_step(t, n, branch),
                search_branch(t, search_step(t, n, branch), branch, k),
                k, Append(result, <<n, branch>>))
  ELSE IF n # Nil THEN Append(result, <<n, branch>>)
  ELSE result

\* search
search(t, k) ==
  IF t.root = Nil THEN <<>>
  ELSE search_loop(t, t.root, compare(t, t.root, k), k, <<>>)

\* rbegin with a fault: *traversal.begin(), the first entry of the path
rbegin_first(traversal) == traversal[1]

\* *traversal.rbegin()
rbegin(traversal) == traversal[Len(traversal)]

\* add_node: ++this->_size; return new_node
add_node_done(t, new_node) ==
  IF t.err # "none" THEN t
  ELSE [t EXCEPT !.size = t.size + 1, !.out = new_node]

\* add_node, from the locals parent and branch on
add_node_at(t, value, parent, branch) ==
  IF branch = 0 THEN Throw(t, "KeyExists")
  ELSE IF branch < 0
    THEN add_node_done(update_node(set_left_child(allocate_node(t, value), parent,
                                                  NodeAddress(t, value)),
                                   NodeAddress(t, value)),
                       NodeAddress(t, value))
  ELSE add_node_done(update_node(set_right_child(allocate_node(t, value), parent,
                                                 NodeAddress(t, value)),
                                 NodeAddress(t, value)),
                     NodeAddress(t, value))

\* add_node, the branch this->_root == nullptr
add_node_root(t, value) ==
  [allocate_node(t, value) EXCEPT !.root = NodeAddress(t, value), !.size = t.size + 1]

\* add_node: the tree when update_node(new_node) is called
add_node_linked(t, value, parent, branch) ==
  IF branch < 0
    THEN set_left_child(allocate_node(t, value), parent, NodeAddress(t, value))
  ELSE set_right_child(allocate_node(t, value), parent, NodeAddress(t, value))

\* add_node, the locals parent and branch once last_result is known
add_node_last(t, value, last_result) ==
  add_node_at(t, value, last_result[1], last_result[2])

\* add_node
add_node(t, value) ==
  IF t.root = Nil THEN add_node_root(t, value)
  ELSE add_node_last(t, value, rbegin(search(t, KeyOfValue(t.kind, value))))

\* remove_leaf with a fault: a leaf that is a right child is not taken out of its
\* parent's _right
remove_leaf_keeps_right_link(t, n) ==
  LET p  == t.node[n].parent
      t1 == IF p # Nil /\ t.node[p].left = n THEN put_left(t, p, Nil) ELSE t
  IN  IF n = t.root THEN return(put_root(t1, Nil), Nil)
      ELSE return(put_parent(t1, n, Nil), p)

\* remove_node, the branch node->is_leaf(); out is the local update_node
remove_leaf(t, n) ==
  LET p  == t.node[n].parent
      t1 == IF p # Nil THEN replace_child(t, p, n, Nil) ELSE t
  IN  IF n = t.root THEN return(put_root(t1, Nil), Nil)
      ELSE return(put_parent(t1, n, Nil), p)

\* remove_one_child_links with a fault: replacement_node->_parent is not set
remove_one_child_links_keeps_parent(t, n, replacement_node, p) ==
  IF n = t.root THEN return(put_root(t, replacement_node), replacement_node)
  ELSE IF p = Nil THEN NullDeref(t)
  ELSE IF t.node[p].left = n THEN return(put_left(t, p, replacement_node), p)
  ELSE IF t.node[p].right = n THEN return(put_right(t, p, replacement_node), p)
  ELSE return(t, Nil)

\* remove_node, the branch with exactly one child, from the locals
\* replacement_node and node->_parent on; out is the local update_node
remove_one_child_links(t, n, replacement_node, p) ==
  LET t1 == put_parent(t, replacement_node, p)
  IN  IF n = t.root THEN return(put_root(t1, replacement_node), replacement_node)
      ELSE IF p = Nil THEN NullDeref(t1)
      ELSE IF t.node[p].left = n THEN return(put_left(t1, p, replacement_node), p)
      ELSE IF t.node[p].right = n THEN return(put_right(t1, p, replacement_node), p)
      ELSE return(t1, Nil)

\* remove_node, the branch with exactly one child; out is the local update_node
remove_one_child(t, n) ==
  remove_one_child_links(t, n,
                         IF t.node[n].left = Nil THEN t.node[n].right ELSE t.node[n].left,
                         t.node[n].parent)

\* leftmost_of with a fault: the loop that walks to the leftmost node is left out
leftmost_no_descent(t, n) == n

\* remove_node: while (leftmost->_left != nullptr) leftmost = leftmost->_left
RECURSIVE leftmost_of(_, _)
leftmost_of(t, n) ==
  IF t.node[n].left # Nil THEN leftmost_of(t, t.node[n].left) ELSE n

\* copy_node_data with a fault: _height is not copied
copy_node_data_links(t, this, other) ==
  [t EXCEPT !.node[this].parent = t.node[other].parent,
            !.node[this].left   = t.node[other].left,
            !.node[this].right  = t.node[other].right]

\* Node::copy_node_data
copy_node_data(t, this, other) ==
  [t EXCEPT !.node[this].height = t.node[other].height,
            !.node[this].parent = t.node[other].parent,
            !.node[this].left   = t.node[other].left,
            !.node[this].right  = t.node[other].right]

\* two_children_update_node with a fault: replaced_node is not looked at, the
\* retrace starts at the successor's former parent or at the successor
two_children_update_node_parent(replaced_node, leftmost_parent, n, leftmost) ==
  IF leftmost_parent # n THEN leftmost_parent
  ELSE leftmost

\* remove_node, the local update_node chosen by the branch with two children
two_children_update_node(replaced_node, leftmost_parent, n, leftmost) ==
  IF replaced_node # Nil THEN replaced_node
  ELSE IF leftmost_parent # n THEN leftmost_parent
  ELSE leftmost

\* remove_node: the successor leaves its place to replaced_node
detach_leftmost(t, n, replaced_node, leftmost_parent) ==
  IF leftmost_parent = n THEN put_right(t, n, replaced_node)
  ELSE put_parent_if(put_left(t, leftmost_parent, replaced_node),
                     replaced_node, leftmost_parent)

\* adopt_left with a fault: leftmost->_left->_parent is not set
adopt_left_skipped(t, leftmost) == t

\* remove_node: if (leftmost->_left != nullptr) leftmost->_left->_parent = leftmost
adopt_left(t, leftmost) == put_parent_if(t, t.node[leftmost].left, leftmost)

\* remove_node: if (leftmost->_right != nullptr) leftmost->_right->_parent = leftmost
adopt_right(t, leftmost) == put_parent_if(t, t.node[leftmost].right, leftmost)

\* remove_node: leftmost takes node's place in the child links of leftmost->_parent
take_place(t, n, leftmost) ==
  IF t.node[leftmost].parent # Nil
    THEN replace_child(t, t.node[leftmost].parent, n, leftmost)
  ELSE t

\* remove_node: if (node == this->_root) this->_root = leftmost
take_root(t, n, leftmost) == IF n = t.root THEN put_root(t, leftmost) ELSE t

\* remove_node, the branch with two children, from the locals leftmost,
\* replaced_node and leftmost_parent on; out is the local update_node
remove_two_children_links(t, n, leftmost, replaced_node, leftmost_parent) ==
  LET t1 == detach_leftmost(t, n, replaced_node, leftmost_parent)
      t2 == copy_node_data(t1, leftmost, n)
      t3 == adopt_left(t2, leftmost)
      t4 == adopt_right(t3, leftmost)
      t5 == take_place(t4, n, leftmost)
      t6 == take_root(t5, n, leftmost)
  IN  return(t6, two_children_update_node(replaced_node, leftmost_parent, n, leftmost))

\* remove_node, the branch with two children, from the local leftmost on
remove_two_children_from(t, n, leftmost) ==
  remove_two_children_links(t, n, leftmost, t.node[leftmost].right,
                            t.node[leftmost].parent)

\* remove_node, the branch with two children; out is the local update_node
remove_two_children(t, n) ==
  remove_two_children_from(t, n, leftmost_of(t, t.node[n].right))

\* is_empty
is_empty(t) == t.root = Nil

\* remove_node: the three branches on the children of node
remove_unlink(t, n) ==
  IF is_leaf(t, n) THEN remove_leaf(t, n)
  ELSE IF t.node[n].left = Nil \/ t.node[n].right = Nil THEN remove_one_child(t, n)
  ELSE remove_two_children(t, n)

\* remove_reset with a fault: node's links are not reset
remove_reset_size_only(t, n) == [t EXCEPT !.size = t.size - 1]

\* remove_node: node's links are reset and --this->_size
remove_reset(t, n) ==
  [t EXCEPT !.node[n].left = Nil, !.node[n].right = Nil, !.node[n].parent = Nil,
            !.size = t.size - 1]

\* remove_node: if (update_node != nullptr) this->update_node(update_node);
\* return update_node
remove_retrace(t, upd) ==
  IF upd # Nil THEN return(update_node(t, upd), upd) ELSE return(t, upd)

\* remove_node, after the branches: t holds the local update_node in out
remove_finish(t, n) ==
  IF t.err # "none" THEN t
  ELSE remove_retrace(remove_reset(t, n), t.out)

\* remove_node: the tree when update_node(update_node) is called, out is the
\* local update_node
remove_unlinked(t, n) == remove_reset(remove_unlink(t, n), n)

\* remove_node, from the local last_node on
remove_node_last(t, last_node) ==
  IF last_node[2] # 0 THEN Throw(t, "NodeNotFound")
  ELSE remove_finish(remove_unlink(t, last_node[1]), last_node[1])

\* remove_node
remove_node(t, value) ==
  IF is_empty(t) THEN Throw(t, "EmptyTree")
  ELSE remove_node_last(t, rbegin(search(t, KeyOfValue(t.kind, value))))

-----------------------------------------------------------------------------
(* AVLTreeBase, public part *)

\* contains with a fault: last_node.second <= 0 in place of == 0
contains_not_right(t, k) ==
  IF t.root = Nil THEN FALSE
  ELSE rbegin(search(t, k))[2] <= 0

\* contains
contains(t, k) ==
  IF t.root = Nil THEN FALSE
  ELSE rbegin(search(t, k))[2] = 0

\* find, from the local last_node on
find_last(last_node) == IF last_node[2] = 0 THEN last_node[1] ELSE Nil

\* find: the node, or Nil for std::nullopt
find(t, k) ==
  IF t.root = Nil THEN Nil
  ELSE find_last(rbegin(search(t, k)))

\* get
get(t, k) ==
  IF find(t, k) = Nil THEN Throw(t, "KeyNotFound")
  ELSE return(t, find(t, k))

\* insert
insert(t, value) == add_node(t, value)

\* the holders of a shared_ptr to n: the nodes with a link to it, and Nil for
\* the tree's _root
Referrers(t, n) ==
  {m \in DOMAIN t.node : n \in {t.node[m].parent, t.node[m].left, t.node[m].right}}
    \cup (IF t.root = n THEN {Nil} ELSE {})

\* the local shared_ptrs to n go out of scope: the node is destroyed when no
\* other shared_ptr holds it
Release(t, n) ==
  IF Referrers(t, n) = {} THEN [t EXCEPT !.node = [m \in (DOMAIN t.node) \ {n} |-> t.node[m]]]
  ELSE t

\* a value returned unless an exception is in flight
return_unless_thrown(t, v) == IF t.err # "none" THEN t ELSE return(t, v)

\* remove: the call of remove_node; out is the node that was unlinked
remove_found(t, n) == return_unless_thrown(remove_node(t, t.node[n].value), n)

\* remove with a fault: the check of the search result is left to remove_node
remove_unchecked(t, k) ==
  IF t.root = Nil THEN return(t, Nil)
  ELSE return(remove_node(t, IF t.kind = "set" THEN k ELSE <<k, DefaultMapped>>),
              rbegin(search(t, k))[1])

\* remove, from the local last_node on
remove_last(t, last_node) ==
  IF last_node[2] # 0 THEN Throw(t, "KeyNotFound")
  ELSE remove_found(t, last_node[1])

\* remove; out is the node that was unlinked (Nil when none was)
remove(t, k) ==
  IF t.root = Nil THEN return(t, Nil)
  ELSE remove_last(t, rbegin(search(t, k)))

\* size
Size(t) == t.size

\* reset_links with a fault: node->_parent is not reset
reset_links_keeps_parent(t, n) ==
  [t EXCEPT !.node[n].left = Nil, !.node[n].right = Nil]

\* destroy: node->_parent.reset(); node->_left.reset(); node->_right.reset()
reset_links(t, n) ==
  [t EXCEPT !.node[n].parent = Nil, !.node[n].left = Nil, !.node[n].right = Nil]

\* destroy: visiting after the two push_back of the children of n
destroy_visiting(t, n, visiting) ==
  visiting \o (IF t.node[n].left # Nil THEN <<t.node[n].left>> ELSE <<>>)
           \o (IF t.node[n].right # Nil THEN <<t.node[n].right>> ELSE <<>>)

\* destroy: the while loop; out collects the nodes taken from visiting
RECURSIVE destroy_loop(_, _)
destroy_loop(t, visiting) ==
  IF Len(visiting) = 0 THEN t
  ELSE destroy_loop(return(reset_links(t, Head(visiting)), t.out \cup {Head(visiting)}),
                    destroy_visiting(t, Head(visiting), Tail(visiting)))

\* destroy; out is the set of the nodes whose links were reset
destroy(t) ==
  IF t.root = Nil THEN return(t, {})
  ELSE put_root(destroy_loop(return(t, {}), <<t.root>>), Nil)

\* the shared_ptrs the caller held to the nodes of S go out of scope: the
\* nodes of S that no other shared_ptr holds are destroyed
ReleaseAll(t, S) ==
  [t EXCEPT !.node = [m \in {x \in DOMAIN t.node : x \notin S \/ Referrers(t, x) # {}}
                        |-> t.node[m]]]

\* copy_node: the address of the node made as the copy of n
CopyAddress(t, n) == NodeAddress(t, t.node[n].value)

\* copy_node with a fault: the copy is built by Node(value) and does not take
\* the height of the node it copies
copy_node_by_value(t, n) ==
  [t EXCEPT !.node = [m \in (DOMAIN t.node) \cup {CopyAddress(t, n)} |->
                        IF m = CopyAddress(t, n) THEN NewNode(t.node[n].value)
                        ELSE t.node[m]],
            !.out = CopyAddress(t, n)]

\* copy_node: std::make_shared<Node>(*node), Node(const Node &other) takes
\* _value, _parent, _left, _right and _height of other
copy_node(t, n) ==
  [t EXCEPT !.node = [m \in (DOMAIN t.node) \cup {CopyAddress(t, n)} |->
                        IF m = CopyAddress(t, n) THEN t.node[n]
                        ELSE t.node[m]],
            !.out = CopyAddress(t, n)]

\* copy: the block if (node->_left != nullptr)
copy_left(t, n, new_node) ==
  IF t.node[n].left # Nil
    THEN set_left_child(copy_node(t, t.node[n].left), new_node,
                        CopyAddress(t, t.node[n].left))
  ELSE t

\* copy_right with a fault: the block is left out, and the copy keeps the
\* _right that Node(const Node &) took from the node it copies
copy_right_left_out(t, n, new_node) == t

\* copy: the block if (node->_right != nullptr)
copy_right(t, n, new_node) ==
  IF t.node[n].right # Nil
    THEN set_right_child(copy_node(t, t.node[n].right), new_node,
                         CopyAddress(t, t.node[n].right))
  ELSE t

\* copy: visiting after the push_back of the children of n
copy_visiting(t, n, visiting) ==
  visiting \o (IF t.node[n].left # Nil THEN <<t.node[n].left>> ELSE <<>>)
           \o (IF t.node[n].right # Nil THEN <<t.node[n].right>> ELSE <<>>)

\* copy: added after the push_back of the copies of the children of n
copy_added(t, n, added) ==
  added \o (IF t.node[n].left # Nil THEN <<CopyAddress(t, t.node[n].left)>> ELSE <<>>)
        \o (IF t.node[n].right # Nil THEN <<CopyAddress(t, t.node[n].right)>> ELSE <<>>)

\* copy: the while loop
RECURSIVE copy_loop(_, _, _)
copy_loop(t, visiting, added) ==
  IF Len(visiting) = 0 \/ t.err # "none" THEN t
  ELSE IF Head(visiting) = Nil THEN copy_loop(t, Tail(visiting), added)
  ELSE IF is_leaf(t, Head(visiting)) THEN copy_loop(t, Tail(visiting), Tail(added))
  ELSE copy_loop(copy_right(copy_left(t, Head(visiting), Head(added)),
                            Head(visiting), Head(added)),
                 copy_visiting(t, Head(visiting), Tail(visiting)),
                 copy_added(t, Head(visiting), Tail(added)))

\* copy: if (this->_root != nullptr) this->destroy(); the nodes destroyed are
\* held by nothing but the tree
copy_destroy(t) == IF t.root # Nil THEN ReleaseAll(destroy(t), destroy(t).out) ELSE t

\* copy, from if (other._root == nullptr) on
copy_from(t, other_root) ==
  IF other_root = Nil THEN t
  ELSE copy_loop(put_root(copy_node(t, other_root), CopyAddress(t, other_root)),
                 <<other_root>>, <<CopyAddress(t, other_root)>>)

\* copy(other): other's nodes are in the heap of t, other_root is other._root;
\* _size is not assigned
copy(t, other_root) == copy_from(copy_destroy(t), other_root)

\* add_nodes with a fault: the vector is walked from its last element to its
\* first
RECURSIVE add_nodes_reversed(_, _)
add_nodes_reversed(t, nodes) ==
  IF nodes = <<>> \/ t.err # "none" THEN t
  ELSE add_nodes_reversed(add_node(t, nodes[Len(nodes)]), SubSeq(nodes, 1, Len(nodes) - 1))

\* AVLTreeBase(std::vector<Value> &nodes): for (auto node : nodes) add_node(node);
\* an exception ends the loop and leaves the constructor
RECURSIVE add_nodes(_, _)
add_nodes(t, nodes) ==
  IF nodes = <<>> \/ t.err # "none" THEN t
  ELSE add_nodes(add_node(t, Head(nodes)), Tail(nodes))

-----------------------------------------------------------------------------
(* Iterators.  An iterator is its field node; Nil is the end iterator. *)

\* while (this->node->_left != nullptr) this->node = this->node->_left
RECURSIVE descend_left(_, _)
descend_left(t, n) ==
  IF t.node[n].left # Nil THEN descend_left(t, t.node[n].left) ELSE n

\* while (this->node->_right != nullptr) this->node = this->node->_right
RECURSIVE descend_right(_, _)
descend_right(t, n) ==
  IF t.node[n].right # Nil THEN descend_right(t, t.node[n].right) ELSE n

\* inorder_iterator_base(NodeType node)
inorder_iterator(t, n) == IF n = Nil THEN Nil ELSE descend_left(t, n)

\* inorder_iterator_base::operator++, the else branch: the loop over parent
\* and this->node = parent
RECURSIVE inorder_ascend(_, _, _)
inorder_ascend(t, n, parent) ==
  IF parent # Nil /\ n = t.node[parent].right
    THEN inorder_ascend(t, parent, t.node[parent].parent)
  ELSE parent

\* inorder_increment with a fault: the descent to the leftmost node of the
\* right subtree is left out
inorder_increment_no_descent(t, n) ==
  IF t.node[n].right # Nil THEN t.node[n].right
  ELSE inorder_ascend(t, n, t.node[n].parent)

\* inorder_iterator_base::operator++ on an iterator that is not at the end
inorder_increment(t, n) ==
  IF t.node[n].right # Nil THEN descend_left(t, t.node[n].right)
  ELSE inorder_ascend(t, n, t.node[n].parent)

\* preorder_iterator with a fault: the constructor walks to the leftmost node
\* as the in-order one does
preorder_iterator_leftmost(t, n) == IF n = Nil THEN Nil ELSE descend_left(t, n)

\* preorder_iterator_base(NodeType node)
preorder_iterator(t, n) == n

\* preorder_iterator_base::operator++, the else branch: the loop over parent
\* and the assignment after it
RECURSIVE preorder_ascend(_, _, _)
preorder_ascend(t, n, parent) ==
  IF parent # Nil /\ (n = t.node[parent].right \/ t.node[parent].right = Nil)
    THEN preorder_ascend(t, parent, t.node[parent].parent)
  ELSE IF parent # Nil THEN t.node[parent].right
  ELSE parent

\* preorder_increment with a fault: the right child is taken before the left
preorder_right_first(t, n) ==
  IF t.node[n].right # Nil THEN t.node[n].right
  ELSE IF t.node[n].left # Nil THEN t.node[n].left
  ELSE preorder_ascend(t, n, t.node[n].parent)

\* preorder_iterator_base::operator++ on an iterator that is not at the end
preorder_increment(t, n) ==
  IF t.node[n].left # Nil THEN t.node[n].left
  ELSE IF t.node[n].right # Nil THEN t.node[n].right
  ELSE preorder_ascend(t, n, t.node[n].parent)

\* postorder_iterator_base: the two loops, all the way left and then all the
\* way right
postorder_descend(t, n) == descend_right(t, descend_left(t, n))

\* postorder_iterator_base(NodeType node)
postorder_iterator(t, n) == IF n = Nil THEN Nil ELSE postorder_descend(t, n)

\* postorder_iterator_base::operator++, from the local parent on
postorder_from(t, n, parent) ==
  IF parent # Nil /\ n = t.node[parent].left THEN
    IF t.node[parent].right = Nil THEN parent
    ELSE postorder_descend(t, t.node[parent].right)
  ELSE parent

\* postorder_iterator_base::operator++ on an iterator that is not at the end
postorder_increment(t, n) == postorder_from(t, n, t.node[n].parent)

\* the three traversals
Orders == {"inorder", "preorder", "postorder"}

\* begin_inorder, begin_preorder, begin_postorder and their value_iterator
\* and const forms: the iterator class is built on this->_root
begin(t, order) ==
  IF order = "inorder" THEN inorder_iterator(t, t.root)
  ELSE IF order = "preorder" THEN preorder_iterator(t, t.root)
  ELSE postorder_iterator(t, t.root)

\* end_inorder, end_preorder, end_postorder: the iterator class built on nullptr
end(t, order) == Nil

\* ++iter
increment(t, order, n) ==
  IF order = "inorder" THEN inorder_increment(t, n)
  ELSE IF order = "preorder" THEN preorder_increment(t, n)
  ELSE postorder_increment(t, n)

\* an iterator object: its field node, the exception in flight and the value
\* the running operator returns
Iter(n) == [node |-> n, err |-> "none", out |-> Nil]

\* operator_increment with a fault: ++ on an iterator whose node is null
\* returns without a throw
operator_increment_silent(t, order, it) ==
  IF it.node = Nil THEN it
  ELSE [it EXCEPT !.node = increment(t, order, it.node)]

\* operator++ of the three iterator bases
operator_increment(t, order, it) ==
  IF it.node = Nil THEN [it EXCEPT !.err = "NullPointer"]
  ELSE [it EXCEPT !.node = increment(t, order, it.node)]

\* operator* of the node iterators: return this->node
operator_deref(t, it) ==
  IF it.node = Nil THEN [it EXCEPT !.err = "NullPointer"]
  ELSE [it EXCEPT !.out = it.node]

\* value_iterator::operator*: return this->node->value()
value_deref(t, it) ==
  IF it.node = Nil THEN [it EXCEPT !.err = "NullPointer"]
  ELSE [it EXCEPT !.out = t.node[it.node].value]

\* the calls made on an iterator
IterOps == {"increment", "deref", "deref_value"}

\* ++iter, *iter on a node iterator, *iter on a value iterator
iterator_call(t, order, what, it) ==
  IF what = "increment" THEN operator_increment(t, order, it)
  ELSE IF what = "deref" THEN operator_deref(t, it)
  ELSE value_deref(t, it)

\* the places an iterator is taken from
Positions == {"begin", "end"}

\* tree.begin_<order>() or tree.end_<order>()
iterator_at(t, order, from) ==
  Iter(IF from = "begin" THEN begin(t, order) ELSE end(t, order))

\* for (iter = begin; iter != end; ++iter) result.push_back(iter): the nodes
\* an iterator yields until it equals end.  The loop is followed for two steps
\* more than there are nodes allocated; a result that long is a traversal that
\* does not end in time.
RECURSIVE iterate(_, _, _, _)
iterate(t, order, n, result) ==
  IF n = end(t, order) \/ Len(result) > Cardinality(DOMAIN t.node) + 1 THEN result
  ELSE iterate(t, order, increment(t, order, n), Append(result, n))

\* the nodes from begin to end
traversal(t, order) == iterate(t, order, begin(t, order), <<>>)

\* value_iterator::operator*, over a sequence of nodes
values(t, nodes) == [i \in 1..Len(nodes) |-> t.node[nodes[i]].value]

\* std::vector<Value>(begin_values_inorder(), end_values_inorder()) and the
\* like for the other two orders
to_vec_in(t, order) == values(t, traversal(t, order))

\* to_vec: std::vector<Value>(this->cbegin(), this->cend())
to_vec(t) == to_vec_in(t, "postorder")

-----------------------------------------------------------------------------
(* AVLMap *)

\* AVLMap::get: out is the node whose mapped value the returned reference names
map_get(t, k) == get(t, k)

\* AVLMap::operator[]: out is the node whose mapped value the returned reference names
index(t, k) ==
  IF map_get(t, k).err = "KeyNotFound" THEN add_node(t, <<k, DefaultMapped>>)
  ELSE map_get(t, k)

\* assign with a fault: the assignment goes to the first component of the
\* pair as well
assign_both(t, n, m) == [t EXCEPT !.node[n].value = <<m, m>>]

\* assignment through the Value& that operator[] or AVLMap::get returned
assign(t, n, m) == [t EXCEPT !.node[n].value = <<t.node[n].value[1], m>>]

\* map.get(k) = m: assignment through the Value& that AVLMap::get returned
get_assign(t, k, m) ==
  IF map_get(t, k).err # "none" THEN map_get(t, k)
  ELSE assign(map_get(t, k), map_get(t, k).out, m)

\* for (auto iter = begin; iter != end; ++iter) iter->second = m, iter the
\* value iterator of the order, at the node n; the loop is followed for two
\* steps more than there are nodes allocated
RECURSIVE assign_loop(_, _, _, _, _)
assign_loop(t, order, n, m, steps) ==
  IF n = end(t, order) \/ steps > Cardinality(DOMAIN t.node) + 1 THEN t
  ELSE assign_loop(assign(t, n, m), order, increment(t, order, n), m, steps + 1)

\* for (auto iter = map.begin_values_<order>(); iter != map.end_values_<order>();
\* ++iter) iter->second = m; map.begin() is the post-order value iterator
iter_assign(t, order, m) == assign_loop(t, order, begin(t, order), m, 0)

\* AVLMap::insert
map_insert(t, k, m) == insert(t, <<k, m>>)

-----------------------------------------------------------------------------
(* The program: one AVLMap, driven by its public operations.  An action    *)
(* runs its call once (\E t \in {call}) and stores the fields of the tree  *)
(* object the call leaves.                                                 *)

\* a heap with no node allocated
EmptyHeap == [m \in {} |-> NewNode(<<Nil, DefaultMapped>>)]

\* the tree object as the variables hold it, no call running
T == [kind |-> kind, base |-> 1, root |-> root, size |-> size, node |-> node,
      err |-> "none", out |-> Nil]

\* what the last call was and how it ended: the exception that escaped
\* ("none" for a normal return), the node returned (find, get, insert,
\* operator[]) or unlinked (remove), the bool contains returned, and the
\* links of the unlinked node when remove returned
Ret(op, k, m, err, out, flag, links) ==
  [op |-> op, key |-> k, mapped |-> m, err |-> err, out |-> out, flag |-> flag,
   links |-> links]

NoLinks == <<Nil, Nil, Nil>>

\* the second tree object before it is constructed
NoTree2 == [made |-> FALSE, copied |-> FALSE, root |-> Nil, size |-> 0]

\* the fields of the tree object after a call
Commit(t) ==
  /\ kind' = kind
  /\ root' = t.root
  /\ size' = t.size
  /\ node' = t.node
  /\ tree2' = tree2

\* a fault ends the process
Running == ret.err # "SIGSEGV"

\* AVLMap(): AVLTreeBase() : _size(0)
Init ==
  /\ kind = "map"
  /\ root = Nil
  /\ size = 0
  /\ node = EmptyHeap
  /\ ret = Ret("new", Nil, DefaultMapped, "none", Nil, FALSE, NoLinks)
  /\ present = {}
  /\ tree2 = NoTree2

\* map.insert(k, m)
Insert(k, m) ==
  /\ Running
  /\ \E t \in {map_insert(T, k, m)} :
         /\ Commit(t)
         /\ ret' = Ret("insert", k, m, t.err, IF t.err = "none" THEN t.out ELSE Nil,
                       FALSE, NoLinks)
         /\ present' = IF t.err = "none" THEN present \cup {k} ELSE present

\* map.remove(k)
Remove(k) ==
  /\ Running
  /\ \E t \in {remove(T, k)} :
       LET unlinked == IF t.err = "none" THEN t.out ELSE Nil
           links == IF unlinked # Nil
                      THEN <<t.node[unlinked].parent, t.node[unlinked].left,
                             t.node[unlinked].right>>
                    ELSE NoLinks
       IN
         /\ Commit(IF unlinked # Nil /\ unlinked # tree2.root THEN Release(t, unlinked)
                   ELSE t)
         /\ ret' = Ret("remove", k, DefaultMapped, t.err, unlinked, FALSE, links)
         /\ present' = IF t.err = "none" THEN present \ {k} ELSE present

\* map[k]
Index(k) ==
  /\ Running
  /\ \E t \in {index(T, k)} :
         /\ Commit(t)
         /\ ret' = Ret("index", k, DefaultMapped, t.err,
                       IF t.err = "none" THEN t.out ELSE Nil, FALSE, NoLinks)
         /\ present' = IF t.err = "none" THEN present \cup {k} ELSE present

\* map[k] = m
IndexAssign(k, m) ==
  /\ Running
  /\ \E t \in {index(T, k)} :
         /\ Commit(IF t.err = "none" THEN assign(t, t.out, m) ELSE t)
         /\ ret' = Ret("index_assign", k, m, t.err,
                       IF t.err = "none" THEN t.out ELSE Nil, FALSE, NoLinks)
         /\ present' = IF t.err = "none" THEN present \cup {k} ELSE present

\* map.find(k)
Find(k) ==
  /\ Running
  /\ ret' = Ret("find", k, DefaultMapped, "none", find(T, k), FALSE, NoLinks)
  /\ UNCHANGED <<kind, root, size, node, present, tree2>>

\* map.TreeBase::get(k)
Get(k) ==
  /\ Running
  /\ \E t \in {get(T, k)} :
         /\ Commit(t)
         /\ ret' = Ret("get", k, DefaultMapped, t.err,
                       IF t.err = "none" THEN t.out ELSE Nil, FALSE, NoLinks)
  /\ UNCHANGED present

\* map.contains(k)
Contains(k) ==
  /\ Running
  /\ ret' = Ret("contains", k, DefaultMapped, "none", Nil, contains(T, k), NoLinks)
  /\ UNCHANGED <<kind, root, size, node, present, tree2>>

Next ==
  \/ \E k \in Keys, m \in Mapped : Insert(k, m)
  \/ \E k \in Keys : Remove(k)
  \/ \E k \in Keys : Index(k)
  \/ \E k \in Keys, m \in Mapped : IndexAssign(k, m)
  \/ \E k \in Keys : Find(k)
  \/ \E k \in Keys : Get(k)
  \/ \E k \in Keys : Contains(k)

Spec == Init /\ [][Next]_vars

-----------------------------------------------------------------------------
(* The program: one AVLTree (a set of keys), driven by insert and remove *)

\* AVLTree(): AVLTreeBase() : _size(0)
InitTree ==
  /\ kind = "set"
  /\ root = Nil
  /\ size = 0
  /\ node = EmptyHeap
  /\ ret = Ret("new", Nil, DefaultMapped, "none", Nil, FALSE, NoLinks)
  /\ present = {}
  /\ tree2 = NoTree2

\* tree.insert(k)
TreeInsert(k) ==
  /\ Running
  /\ \E t \in {insert(T, k)} :
         /\ Commit(t)
         /\ ret' = Ret("insert", k, DefaultMapped, t.err,
                       IF t.err = "none" THEN t.out ELSE Nil, FALSE, NoLinks)
         /\ present' = IF t.err = "none" THEN present \cup {k} ELSE present

\* std::vector<Value>(tree.begin_values_inorder(), tree.end_values_inorder())
\* and the like for the other two orders
Traverse(order) ==
  /\ Running
  /\ ret' = Ret(order, Nil, DefaultMapped, "none", to_vec_in(T, order), FALSE, NoLinks)
  /\ UNCHANGED <<kind, root, size, node, present, tree2>>

\* auto iter = tree.begin_<order>() (or end_<order>(), or the value iterator
\* of the order); then ++iter or *iter.  ret keeps the exception, in out the
\* node of iter after the call, and in flag whether iter was exhausted (its
\* node null) before the call
IteratorCall(order, from, what) ==
  /\ Running
  /\ \E it \in {iterator_call(T, order, what, iterator_at(T, order, from))} :
         ret' = Ret(what, Nil, DefaultMapped, it.err, it.node,
                    iterator_at(T, order, from).node = Nil, NoLinks)
  /\ UNCHANGED <<kind, root, size, node, present, tree2>>

NextTree ==
  \/ \E k \in TreeKeys : TreeInsert(k)
  \/ \E k \in TreeKeys : Remove(k)
  \/ \E order \in Orders : Traverse(order)

SpecTree == InitTree /\ [][NextTree]_vars

-----------------------------------------------------------------------------
(* The program of test_avltree: an AVLTree built from a vector of keys,    *)
(* read by the three traversals and by single iterator calls, and changed  *)
(* by insert, remove and destroy                                           *)

\* the vector of test_avltree
ScenarioA == <<5, 7, 2, 4, 3, 8, 10, 1, 0, 6, 9>>

\* a vector of thirteen keys
LongVector == <<1, 2, 3, 5, 6, 4, 8, 10, 11, 7, 12, 9, 13>>

\* the vectors a tree is built from
Vectors == {ScenarioA, LongVector}

\* the elements of a vector
Elements(nodes) == {nodes[i] : i \in 1..Len(nodes)}

\* AVLTreeBase() : _size(0), and the _root a shared_ptr starts as
NewTree(k, base) ==
  [kind |-> k, base |-> base, root |-> Nil, size |-> 0, node |-> EmptyHeap,
   err |-> "none", out |-> Nil]

\* AVLTree<std::uint32_t>(nodes)
InitVec ==
  \E nodes \in Vectors :
    \E t \in {add_nodes(NewTree("set", 1), nodes)} :
      /\ kind = "set"
      /\ root = t.root
      /\ size = t.size
      /\ node = t.node
      /\ ret = Ret("vector", Nil, DefaultMapped, t.err, nodes, FALSE, NoLinks)
      /\ present = Elements(nodes)
      /\ tree2 = NoTree2

\* tree.destroy(); the nodes are freed when the call has returned
Destroy ==
  /\ Running
  /\ \E t \in {destroy(T)} :
         /\ Commit(ReleaseAll(t, t.out \ {tree2.root}))
         /\ ret' = Ret("destroy", Nil, DefaultMapped, t.err, Nil, FALSE, NoLinks)
         /\ present' = {}

NextVec ==
  \/ \E k \in VecKeys : TreeInsert(k)
  \/ \E k \in VecKeys : Remove(k)
  \/ \E order \in Orders : Traverse(order)
  \/ (size < MaxVecSize /\ Destroy)
  \/ \E order \in Orders, from \in Positions, what \in IterOps :
        IteratorCall(order, from, what)

SpecVec == InitVec /\ [][NextVec]_vars

-----------------------------------------------------------------------------
(* The program that fills an AVLTree by insert, one value at a time; ret    *)
(* keeps in out the values handed to insert so far, the last one included,  *)
(* and in err the exception of the last insert.  The program ends with the  *)
(* first insert that throws.                                                *)

\* AVLTree<int> tree;
InitBuild ==
  /\ kind = "set"
  /\ root = Nil
  /\ size = 0
  /\ node = EmptyHeap
  /\ ret = Ret("build", Nil, DefaultMapped, "none", <<>>, FALSE, NoLinks)
  /\ present = {}
  /\ tree2 = NoTree2

\* tree.insert(k)
BuildInsert(k) ==
  /\ ret.err = "none"
  /\ Len(ret.out) < MaxBuildLen
  /\ \E t \in {insert(T, k)} :
         /\ Commit(t)
         /\ ret' = Ret("build", k, DefaultMapped, t.err, Append(ret.out, k), FALSE, NoLinks)
         /\ present' = IF t.err = "none" THEN present \cup {k} ELSE present

NextBuild == \E k \in BuildKeys : BuildInsert(k)

SpecBuild == InitBuild /\ [][NextBuild]_vars

-----------------------------------------------------------------------------
(* The program that counts its inserts: an AVLTree changed by insert and    *)
(* remove; ret keeps in out the number of insert calls that have added a    *)
(* node so far, in key the key of the last call and in err its exception.   *)

\* AVLTree<int> tree;
InitCount ==
  /\ kind = "set"
  /\ root = Nil
  /\ size = 0
  /\ node = EmptyHeap
  /\ ret = Ret("count_new", Nil, DefaultMapped, "none", 0, FALSE, NoLinks)
  /\ present = {}
  /\ tree2 = NoTree2

\* tree.insert(k)
CountInsert(k) ==
  /\ Running
  /\ ret.out < MaxInserts
  /\ \E t \in {insert(T, k)} :
         /\ Commit(t)
         /\ ret' = Ret("count_insert", k, DefaultMapped, t.err,
                       IF t.err = "none" THEN ret.out + 1 ELSE ret.out, FALSE, NoLinks)
         /\ present' = IF t.err = "none" THEN present \cup {k} ELSE present

\* tree.remove(k); the node unlinked is freed when the call has returned
CountRemove(k) ==
  /\ Running
  /\ \E t \in {remove(T, k)} :
         /\ Commit(IF t.err = "none" /\ t.out # Nil THEN Release(t, t.out) ELSE t)
         /\ ret' = Ret("count_remove", k, DefaultMapped, t.err, ret.out, FALSE, NoLinks)
         /\ present' = IF t.err = "none" THEN present \ {k} ELSE present

NextCount ==
  \/ \E k \in CountKeys : CountInsert(k)
  \/ \E k \in CountKeys : CountRemove(k)

SpecCount == InitCount /\ [][NextCount]_vars

-----------------------------------------------------------------------------
(* The program with the retrace in steps: an AVLTree changed by insert and  *)
(* remove, where a call that reaches update_node runs its while loop one    *)
(* iteration per step, and the call of rebalance_node as a step of its own. *)
(* ret has one more field, at: "idle" when no call is running, else where   *)
(* the running call is: "update_node" at the head of the loop,              *)
(* "rebalance_node" at the call of rebalance_node(update).  While a call    *)
(* runs, ret.op and ret.key name it, ret.out is the local update, and the   *)
(* variables of the tree hold the tree as the call has left it so far.      *)

\* the return record r with the place the call is at
RetAt(r, at) ==
  [op |-> r.op, key |-> r.key, mapped |-> r.mapped, err |-> r.err, out |-> r.out,
   flag |-> r.flag, links |-> r.links, at |-> at]

\* the call is inside update_node
Retracing == ret.at # "idle"

\* AVLTree<int> tree;
InitRetrace ==
  /\ kind = "set"
  /\ root = Nil
  /\ size = 0
  /\ node = EmptyHeap
  /\ ret = RetAt(Ret("new", Nil, DefaultMapped, "none", Nil, FALSE, NoLinks), "idle")
  /\ present = {}
  /\ tree2 = NoTree2

\* tree.insert(k): a call that does not reach update_node (an empty tree, a
\* key that exists) runs to its end; any other runs up to the call of
\* update_node(new_node)
RetraceInsert(k) ==
  /\ Running
  /\ ~Retracing
  /\ IF root = Nil \/ rbegin(search(T, k))[2] = 0
       THEN \E t \in {insert(T, k)} :
              /\ Commit(t)
              /\ ret' = RetAt(Ret("insert", k, DefaultMapped, t.err,
                                  IF t.err = "none" THEN t.out ELSE Nil, FALSE, NoLinks),
                              "idle")
              /\ present' = IF t.err = "none" THEN present \cup {k} ELSE present
     ELSE \E t \in {add_node_linked(T, k, rbegin(search(T, k))[1],
                                     rbegin(search(T, k))[2])} :
              /\ Commit(t)
              /\ ret' = RetAt(Ret("insert", k, DefaultMapped, t.err, NodeAddress(T, k),
                                  FALSE, NoLinks),
                              "update_node")
              /\ present' = present

\* tree.remove(k): a call that does not reach update_node (an empty tree, a
\* key that is not found, the last node removed) runs to its end; any other
\* runs up to the call of update_node(update_node)
RetraceRemove(k) ==
  /\ Running
  /\ ~Retracing
  /\ IF root = Nil \/ rbegin(search(T, k))[2] # 0
       THEN \E t \in {remove(T, k)} :
              /\ Commit(t)
              /\ ret' = RetAt(Ret("remove", k, DefaultMapped, t.err, Nil, FALSE, NoLinks),
                              "idle")
              /\ present' = present
     ELSE \E t \in {remove_unlinked(T, rbegin(search(T, k))[1])} :
              /\ Commit(IF t.out = Nil THEN Release(t, NodeAddress(T, k)) ELSE t)
              /\ ret' = RetAt(Ret("remove", k, DefaultMapped, t.err,
                                  IF t.out = Nil THEN NodeAddress(T, k) ELSE t.out,
                                  FALSE, NoLinks),
                              IF t.out = Nil THEN "idle" ELSE "update_node")
              /\ present' = IF t.out = Nil THEN present \ {k} ELSE present

\* the call returns from update_node with the tree t: add_node counts the
\* node and returns it, remove drops its shared_ptr to the node it unlinked
RetraceReturn(t) ==
  /\ Commit(IF ret.op = "insert" THEN add_node_done(t, NodeAddress(T, ret.key))
            ELSE Release(t, NodeAddress(T, ret.key)))
  /\ ret' = RetAt(Ret(ret.op, ret.key, DefaultMapped, t.err, NodeAddress(T, ret.key),
                      FALSE, NoLinks),
                  "idle")
  /\ present' = IF ret.op = "insert" THEN present \cup {ret.key} ELSE present \ {ret.key}

\* one iteration of the while loop of update_node
RetraceIteration ==
  /\ Running
  /\ ret.at = "update_node"
  /\ \E it \in {update_iteration(T, ret.out)} :
       IF it.next = "return" THEN RetraceReturn(it.tree)
       ELSE /\ Commit(it.tree)
            /\ ret' = [ret EXCEPT !.out = it.update, !.at = it.next]
            /\ present' = present

\* this->rebalance_node(update); return
RetraceRebalance ==
  /\ Running
  /\ ret.at = "rebalance_node"
  /\ \E t \in {rebalance_node(T, ret.out)} : RetraceReturn(t)

NextRetrace ==
  \/ \E k \in RetraceKeys : RetraceInsert(k)
  \/ \E k \in RetraceKeys : RetraceRemove(k)
  \/ RetraceIteration
  \/ RetraceRebalance

\* update_node and rebalance_node are sequential code: a call inside them
\* keeps running
SpecRetrace ==
  /\ InitRetrace
  /\ [][NextRetrace]_vars
  /\ WF_vars(RetraceIteration)
  /\ WF_vars(RetraceRebalance)

-----------------------------------------------------------------------------
(* The program of test_avlmap: one AVLMap changed by insert and remove,     *)
(* and whose mapped values are assigned through operator[], through get and *)
(* through the value iterators.                                             *)

\* map.get(k) = m
GetAssign(k, m) ==
  /\ Running
  /\ \E t \in {get_assign(T, k, m)} :
         /\ Commit(t)
         /\ ret' = Ret("get_assign", k, m, t.err,
                       IF t.err = "none" THEN t.out ELSE Nil, FALSE, NoLinks)
  /\ UNCHANGED present

\* for (auto iter = map.begin(); iter != map.end(); ++iter) iter->second = m,
\* and the same loop over the in-order and pre-order value iterators; ret
\* keeps the order in key
IterAssign(order, m) ==
  /\ Running
  /\ \E t \in {iter_assign(T, order, m)} :
         /\ Commit(t)
         /\ ret' = Ret("iter_assign", order, m, t.err, Nil, FALSE, NoLinks)
  /\ UNCHANGED present

NextAssign ==
  \/ \E k \in AssignKeys, m \in Mapped : Insert(k, m)
  \/ \E k \in AssignKeys : Remove(k)
  \/ \E k \in AssignKeys, m \in Mapped : IndexAssign(k, m)
  \/ \E k \in AssignKeys, m \in Mapped : GetAssign(k, m)
  \/ \E order \in Orders, m \in Mapped : IterAssign(order, m)

SpecAssign == Init /\ [][NextAssign]_vars

-----------------------------------------------------------------------------
(* The program that only inserts: an AVLTree, empty at first, and calls of  *)
(* insert, those that throw KeyExists included                              *)

NextInserts == \E k \in InsertKeys : TreeInsert(k)

SpecInserts == InitTree /\ [][NextInserts]_vars

-----------------------------------------------------------------------------
(* The program of two trees: an AVLTree changed by insert and remove, and  *)
(* a second AVLTree that is default-constructed or copy-constructed from   *)
(* the first, takes copy(first) and is changed by insert, remove and       *)
(* destroy; once the second is a copy, the first is destroyed as well.     *)
(* The return record of a call on the second tree keeps the exception.     *)

\* the second tree object as the variables hold it, no call running
T2 == [kind |-> kind, base |-> Tree2Base, root |-> tree2.root, size |-> tree2.size,
       node |-> node, err |-> "none", out |-> Nil]

\* the fields of the second tree object after a call; copied records that
\* the call was a copy
Commit2(t, copied) ==
  /\ kind' = kind
  /\ root' = root
  /\ size' = size
  /\ node' = t.node
  /\ present' = present
  /\ tree2' = [made |-> TRUE, copied |-> copied, root |-> t.root, size |-> t.size]

\* AVLTree<int> tree2;
Tree2New ==
  /\ Running
  /\ ~tree2.made
  /\ Commit2(T2, FALSE)
  /\ ret' = Ret("tree2_new", Nil, DefaultMapped, "none", Nil, FALSE, NoLinks)

\* AVLTree<int> tree2(tree): AVLTreeBase(const AVLTreeBase &other) initialises
\* _root to nullptr and leaves _size uninitialised, then calls copy(other)
Tree2CopyConstruct ==
  /\ Running
  /\ ~tree2.made
  /\ \E s \in Indeterminate :
       \E t \in {copy([T2 EXCEPT !.size = s], root)} :
         /\ Commit2(t, TRUE)
         /\ ret' = Ret("copy_construct", Nil, DefaultMapped, t.err, Nil, FALSE, NoLinks)

\* tree2.copy(tree)
Tree2Copy ==
  /\ Running
  /\ tree2.made
  /\ \E t \in {copy(T2, root)} :
         /\ Commit2(t, TRUE)
         /\ ret' = Ret("copy", Nil, DefaultMapped, t.err, Nil, FALSE, NoLinks)

\* tree2.insert(k)
Tree2Insert(k) ==
  /\ Running
  /\ tree2.made
  /\ tree2.size < MaxSize
  /\ \E t \in {insert(T2, k)} :
         /\ Commit2(t, tree2.copied)
         /\ ret' = Ret("tree2_insert", Nil, DefaultMapped, t.err, Nil, FALSE, NoLinks)

\* tree2.remove(k)
Tree2Remove(k) ==
  /\ Running
  /\ tree2.made
  /\ tree2.size > 0
  /\ \E t \in {remove(T2, k)} :
       LET unlinked == IF t.err = "none" THEN t.out ELSE Nil
       IN
         /\ Commit2(IF unlinked # Nil /\ unlinked # root THEN Release(t, unlinked) ELSE t,
                    tree2.copied)
         /\ ret' = Ret("tree2_remove", Nil, DefaultMapped, t.err, Nil, FALSE, NoLinks)

\* tree2.destroy(); the nodes are freed when the call has returned
Tree2Destroy ==
  /\ Running
  /\ tree2.made
  /\ \E t \in {destroy(T2)} :
         /\ Commit2(ReleaseAll(t, t.out \ {root}), tree2.copied)
         /\ ret' = Ret("tree2_destroy", Nil, DefaultMapped, t.err, Nil, FALSE, NoLinks)

NextCopy ==
  \/ \E k \in CopyKeys : (size < MaxSize /\ TreeInsert(k))
  \/ \E k \in CopyKeys : Remove(k)
  \/ (tree2.copied /\ Destroy)
  \/ Tree2New
  \/ Tree2CopyConstruct
  \/ Tree2Copy
  \/ \E k \in CopyKeys : Tree2Insert(k)
  \/ \E k \in CopyKeys : Tree2Remove(k)
  \/ Tree2Destroy

SpecCopy == InitTree /\ [][NextCopy]_vars

-----------------------------------------------------------------------------
(* The node graph, as the properties below read it *)

\* the children of the nodes of S
Children(t, S) == {t.node[n].left : n \in S} \cup {t.node[n].right : n \in S}

\* S and everything below it
RECURSIVE Below(_, _)
Below(t, S) ==
  LET S2 == S \cup (Children(t, S) \ {Nil})
  IN  IF S2 = S THEN S ELSE Below(t, S2)

\* the nodes of the subtree rooted at n
Subtree(t, n) == IF n = Nil THEN {} ELSE Below(t, {n})

\* the nodes reachable from the root
Reachable(t) == Subtree(t, t.root)

\* the keys stored in the subtree rooted at n
SubtreeKeys(t, n) == {key(t, m) : m \in Subtree(t, n)}

\* the stored height of a child, 0 for an absent child
StoredHeight(t, n) == IF n = Nil THEN 0 ELSE t.node[n].height

Max(a, b) == IF a >= b THEN a ELSE b

Abs(a) == IF a >= 0 THEN a ELSE -a

\* the nodes of the subtree rooted at n, left subtree first, then n, then the
\* right subtree
RECURSIVE InOrder(_, _)
InOrder(t, n) ==
  IF n = Nil THEN <<>>
  ELSE InOrder(t, t.node[n].left) \o <<n>> \o InOrder(t, t.node[n].right)

\* n first, then its left subtree, then its right subtree
RECURSIVE PreOrder(_, _)
PreOrder(t, n) ==
  IF n = Nil THEN <<>>
  ELSE <<n>> \o PreOrder(t, t.node[n].left) \o PreOrder(t, t.node[n].right)

\* the left subtree, then the right subtree, then n
RECURSIVE PostOrder(_, _)
PostOrder(t, n) ==
  IF n = Nil THEN <<>>
  ELSE PostOrder(t, t.node[n].left) \o PostOrder(t, t.node[n].right) \o <<n>>

\* the number of nodes on the longest path from n down to a leaf, 0 for an
\* absent node
RECURSIVE Height(_, _)
Height(t, n) ==
  IF n = Nil THEN 0
  ELSE 1 + Max(Height(t, t.node[n].left), Height(t, t.node[n].right))

\* ceil(1.44 * log2(n + 2)) for n up to 45: it is at most h exactly when
\* (n + 2)^36 <= 2^(25 * h), that is n + 2 <= 2, 4, 6, 11, 17, 29, 47 for
\* h = 2, 3, 4, 5, 6, 7, 8
HeightBound(n) ==
  IF n + 2 <= 2 THEN 2
  ELSE IF n + 2 <= 4 THEN 3
  ELSE IF n + 2 <= 6 THEN 4
  ELSE IF n + 2 <= 11 THEN 5
  ELSE IF n + 2 <= 17 THEN 6
  ELSE IF n + 2 <= 29 THEN 7
  ELSE 8

\* the keys of a sequence of nodes
KeysOf(t, nodes) == [i \in 1..Len(nodes) |-> key(t, nodes[i])]

\* a sequence of keys with the key k taken out
Without(keys, k) == SelectSeq(keys, LAMBDA x : x # k)

\* n is a node with a left and a right child
HasTwoChildren(t, n) == n # Nil /\ t.node[n].left # Nil /\ t.node[n].right # Nil

\* the nodes above n: its parent, the parent of its parent, and so on
RECURSIVE ProperAncestors(_, _)
ProperAncestors(t, n) ==
  IF n = Nil \/ t.node[n].parent = Nil THEN {}
  ELSE {t.node[n].parent} \cup ProperAncestors(t, t.node[n].parent)

\* the stored height of n is 1 + max of the stored heights of its children
HeightExactAt(t, n) ==
  t.node[n].height =
    1 + Max(StoredHeight(t, t.node[n].left), StoredHeight(t, t.node[n].right))

\* the stored heights of the children of n differ by at most 1
BalancedAt(t, n) ==
  Abs(StoredHeight(t, t.node[n].left) - StoredHeight(t, t.node[n].right)) <= 1

\* the step is an insert that linked a new node, and so ran a retrace
InsertRetraced == ret'.op = "insert" /\ ret'.err = "none" /\ root # Nil

\* the step is a remove that unlinked a node and ran a retrace
RemoveRetraced ==
  /\ ret'.op = "remove" /\ ret'.err = "none" /\ ret'.out # Nil
  /\ remove_unlinked(T, ret'.out).out # Nil

\* the tree of the step when its retrace begins, out is the node it begins at
BeforeRetrace ==
  IF ret'.op = "insert"
    THEN return(add_node_linked(T, ret'.key, rbegin(search(T, ret'.key))[1],
                                rbegin(search(T, ret'.key))[2]),
                ret'.out)
  ELSE remove_unlinked(T, ret'.out)

\* where and why the retrace of the step ended
RetraceStop == update_stop(BeforeRetrace, BeforeRetrace.out)

\* the in-order successor of a node n that has a right child: the node with
\* the least key in the right subtree of n
Successor(t, n) ==
  CHOOSE m \in Subtree(t, t.node[n].right) :
    \A x \in Subtree(t, t.node[n].right) : ~KeyCompare(key(t, x), key(t, m))

\* the subtree rooted at n holds the same nodes in t and in u
SameSubtree(t, u, n) == Subtree(t, n) = Subtree(u, n)

\* the only child of a node n that has exactly one
OnlyChild(t, n) == IF t.node[n].left # Nil THEN t.node[n].left ELSE t.node[n].right

\* the step is a remove that unlinked a leaf
RemovedLeaf == ret'.op = "remove" /\ ret'.err = "none" /\ ret'.out # Nil /\ is_leaf(T, ret'.out)

\* the step is a remove that unlinked a node with exactly one child
RemovedOneChild ==
  /\ ret'.op = "remove" /\ ret'.err = "none" /\ ret'.out # Nil
  /\ ~is_leaf(T, ret'.out) /\ ~HasTwoChildren(T, ret'.out)

\* u is t with the child link of p that held n now holding c
SlotReplaced(t, u, p, n, c) ==
  /\ n \in {t.node[p].left, t.node[p].right}
  /\ u.node[p].left = (IF t.node[p].left = n THEN c ELSE t.node[p].left)
  /\ u.node[p].right = (IF t.node[p].left # n /\ t.node[p].right = n THEN c
                        ELSE t.node[p].right)

\* the step is a remove that unlinked a node with two children
RemovedTwoChildren ==
  ret'.op = "remove" /\ ret'.err = "none" /\ HasTwoChildren(T, ret'.out)

\* the key was in the tree before the step
WasPresent(k) == k \in present

\* the tree object as the step leaves it
TAfter == [T EXCEPT !.root = root', !.size = size', !.node = node']

\* the step left the tree object as it was: nodes, links, heights, values, size
TreeUnchanged == root' = root /\ size' = size /\ node' = node

-----------------------------------------------------------------------------
(* Properties *)

\* C1: after any sequence of insert and remove calls on an initially empty
\* tree, the stored heights of the two children of every node (0 for an
\* absent child) differ by at most 1.
C1_AVLBalance ==
  \A n \in Reachable(T) :
    Abs(StoredHeight(T, node[n].left) - StoredHeight(T, node[n].right)) <= 1

\* C2: after every public mutating operation, in every reachable tree, the
\* one-node tree of the first insert included, every node's stored height is
\* 1 + max of the stored heights of its children (0 for an absent child).
C2_HeightExact ==
  \A n \in Reachable(T) :
    node[n].height =
      1 + Max(StoredHeight(T, node[n].left), StoredHeight(T, node[n].right))

\* C3: after any sequence of insert and remove calls the tree is a binary
\* search tree: every key in the left subtree of a node is less than the
\* node's key, every key in its right subtree is greater.
C3_BSTOrder ==
  \A n \in Reachable(T) :
    /\ \A x \in SubtreeKeys(T, node[n].left) : KeyCompare(x, key(T, n))
    /\ \A x \in SubtreeKeys(T, node[n].right) : KeyCompare(key(T, n), x)

\* C3 witness: a remove unlinked a node with two children from a tree that
\* keeps at least four nodes, one of them with two children
C3_Witness ==
  /\ ret.op = "remove" /\ ret.out # Nil
  /\ size >= 4
  /\ \E n \in Reachable(T) : node[n].left # Nil /\ node[n].right # Nil

\* C4: size() is the number of nodes reachable from the root after any
\* sequence of insert, remove and operator[] calls; an insert that succeeds
\* raises it by one, a remove that unlinks a node lowers it by one, a call
\* that fails or finds nothing to do leaves it as it was.
C4_SizeStep ==
  /\ (ret'.op = "insert" /\ ret'.err = "none") => size' = size + 1
  /\ (ret'.op = "insert" /\ ret'.err # "none") => size' = size
  /\ (ret'.op = "remove" /\ WasPresent(ret'.key)) => size' = size - 1
  /\ (ret'.op = "remove" /\ ~WasPresent(ret'.key)) => size' = size
  /\ (ret'.op \in {"index", "index_assign"} /\ WasPresent(ret'.key)) => size' = size
  /\ (ret'.op \in {"index", "index_assign"} /\ ~WasPresent(ret'.key)) => size' = size + 1

C4_Size ==
  /\ [](size = Cardinality(Reachable(T)))
  /\ [][C4_SizeStep]_vars

\* C4 witness: a remove unlinked a node and left at least two behind
C4_Witness == ret.op = "remove" /\ ret.out # Nil /\ size >= 2 /\ root # Nil

\* C5: the tree refines the set of the keys inserted and not removed since:
\* for every key k of the domain, contains(k) is true, and find(k) returns a
\* node (one with key k), exactly when k is in that set.
C5_RefinesKeySet ==
  \A k \in Keys :
    /\ contains(T, k) <=> k \in present
    /\ find(T, k) # Nil <=> k \in present
    /\ find(T, k) # Nil => key(T, find(T, k)) = k

\* C5 witness: a key was removed while others stay
C5_Witness == ret.op = "remove" /\ ret.out # Nil /\ Cardinality(present) >= 2

\* C6: after an insert of a value with key k that succeeded, find(k) returns
\* the node holding exactly that value; after a remove(k) that returned
\* normally, find(k) returns absent.
C6_RoundTrip ==
  /\ (ret.op = "insert" /\ ret.err = "none") =>
        /\ find(T, ret.key) # Nil
        /\ find(T, ret.key) = ret.out
        /\ node[find(T, ret.key)].value = <<ret.key, ret.mapped>>
  /\ (ret.op = "remove" /\ ret.err = "none") => find(T, ret.key) = Nil

\* C6 witness: a non-default value went into a tree of three nodes or more
C6_Witness ==
  ret.op = "insert" /\ ret.err = "none" /\ ret.mapped # DefaultMapped /\ size >= 3

\* C7: an insert whose key is already in the tree fails with KeyExists and
\* leaves nodes, links, heights, stored values and size as they were.
C7_InsertPresentStep ==
  (ret'.op = "insert" /\ WasPresent(ret'.key)) =>
     (ret'.err = "KeyExists" /\ TreeUnchanged)

C7_InsertPresent == [][C7_InsertPresentStep]_vars

\* C7 witness: an insert failed with KeyExists on a key that is not at the root
C7_Witness ==
  /\ ret.op = "insert" /\ ret.err = "KeyExists"
  /\ root # Nil /\ key(T, root) # ret.key

\* C8: remove(k) on a non-empty tree without k fails with KeyNotFound and
\* leaves nodes, links, heights and size as they were.
C8_RemoveAbsentStep ==
  (ret'.op = "remove" /\ root # Nil /\ ~WasPresent(ret'.key)) =>
     (ret'.err = "KeyNotFound" /\ TreeUnchanged)

C8_RemoveAbsent == [][C8_RemoveAbsentStep]_vars

\* C8 witness: a remove failed with KeyNotFound
C8_Witness == ret.op = "remove" /\ ret.err = "KeyNotFound" /\ size >= 1

\* C9: remove(k) on a tree with zero nodes fails with EmptyTree, for every k.
C9_RemoveOnEmptyStep == (ret'.op = "remove" /\ root = Nil) => ret'.err = "EmptyTree"

C9_RemoveOnEmpty == [][C9_RemoveOnEmptyStep]_vars

\* C10: in every reachable tree, the empty one included, and for every key
\* k: get(k) fails, with KeyNotFound, exactly when contains(k) is false and
\* find(k) is absent; find and contains never fail (search hands them a path
\* with a last entry whenever there is a root); no lookup changes the tree.
C10_LookupsAgree ==
  \A k \in Keys :
    /\ get(T, k).err \in {"none", "KeyNotFound"}
    /\ get(T, k).err = "KeyNotFound" <=> (~contains(T, k) /\ find(T, k) = Nil)
    /\ get(T, k).err = "none" <=> (contains(T, k) /\ find(T, k) # Nil)
    /\ root # Nil => Len(search(T, k)) >= 1

C10_LookupStep ==
  ret'.op \in {"find", "get", "contains"} =>
    /\ TreeUnchanged
    /\ ret'.op = "get" => (ret'.err = "KeyNotFound" <=> ~contains(T, ret'.key))
    /\ ret'.op = "get" => ret'.err \in {"none", "KeyNotFound"}
    /\ ret'.op # "get" => ret'.err = "none"
    /\ ret'.op = "find" => (ret'.out = Nil <=> ~contains(T, ret'.key))
    /\ ret'.op = "contains" => (ret'.flag <=> find(T, ret'.key) # Nil)

C10_Lookups == []C10_LookupsAgree /\ [][C10_LookupStep]_vars

\* C10 witness: get failed with KeyNotFound on a tree that has nodes
C10_Witness == ret.op = "get" /\ ret.err = "KeyNotFound" /\ size >= 2

\* C11: the tree built from the vector 5,7,2,4,3,8,10,1,0,6,9 (the keys
\* inserted in that order into an empty tree) has the in-order sequence
\* 0,1,...,10, the pre-order sequence 5,3,1,0,2,4,8,7,6,10,9 and the post-order
\* sequence 0,2,1,4,3,6,7,9,10,8,5.
C11_ScenarioA ==
  (ret.op = "vector" /\ ret.out = ScenarioA) =>
    /\ ret.err = "none"
    /\ to_vec_in(T, "inorder") = <<0, 1, 2, 3, 4, 5, 6, 7, 8, 9, 10>>
    /\ to_vec_in(T, "preorder") = <<5, 3, 1, 0, 2, 4, 8, 7, 6, 10, 9>>
    /\ to_vec_in(T, "postorder") = <<0, 2, 1, 4, 3, 6, 7, 9, 10, 8, 5>>

\* C11 witness: the tree of the eleven keys of the vector, just built
C11_Witness ==
  ret.op = "vector" /\ ret.out = ScenarioA /\ ret.err = "none" /\ size = 11

\* C12: in every reachable tree, a remove of a key whose node has two
\* children leaves a tree in BST order, AVL-balanced and with exact stored
\* heights, whose in-order key sequence is the one before the call with the
\* removed key taken out.
C12_TwoChildrenStep ==
  (ret'.op = "remove" /\ ret'.err = "none" /\ HasTwoChildren(T, find(T, ret'.key))) =>
    /\ C3_BSTOrder'
    /\ C1_AVLBalance'
    /\ C2_HeightExact'
    /\ KeysOf(T, InOrder(T, root))' = Without(KeysOf(T, InOrder(T, root)), ret'.key)

C12_TwoChildrenRemove == [][C12_TwoChildrenStep]_vars

\* the nodes of a sequence
Range(nodes) == {nodes[i] : i \in 1..Len(nodes)}

\* C13: in every reachable tree the in-order iterator started at the root
\* visits every node exactly once, in strictly ascending key order, and equals
\* the end iterator after exactly as many steps as there are nodes; on an
\* empty tree begin equals end.
C13_Inorder ==
  /\ Len(traversal(T, "inorder")) = Cardinality(Reachable(T))
  /\ Range(traversal(T, "inorder")) = Reachable(T)
  /\ \A i \in 1..(Len(traversal(T, "inorder")) - 1) :
        KeyCompare(key(T, traversal(T, "inorder")[i]),
                   key(T, traversal(T, "inorder")[i + 1]))
  /\ traversal(T, "inorder") = InOrder(T, root)
  /\ root = Nil => begin(T, "inorder") = end(T, "inorder")

\* C13 witness: the in-order traversal ran over a tree of six nodes or more,
\* one of them with a right child only
C13_Witness ==
  /\ ret.op = "inorder" /\ Len(ret.out) >= 6
  /\ \E n \in Reachable(T) : node[n].left = Nil /\ node[n].right # Nil

\* C14: in every reachable tree the post-order iterator, and to_vec, which
\* collects it, visits every node exactly once, each node after all the nodes
\* of its left and right subtrees and the root last, and ends after exactly
\* as many steps as there are nodes.
C14_Postorder ==
  /\ Len(traversal(T, "postorder")) = Cardinality(Reachable(T))
  /\ Range(traversal(T, "postorder")) = Reachable(T)
  /\ traversal(T, "postorder") = PostOrder(T, root)
  /\ root # Nil => traversal(T, "postorder")[Len(traversal(T, "postorder"))] = root
  /\ to_vec(T) = values(T, PostOrder(T, root))

\* C15: in every reachable tree the pre-order iterator started at the root
\* visits every node exactly once, a node first, then its whole left subtree,
\* then its whole right subtree, and equals the end iterator after exactly as
\* many steps as there are nodes.
C15_Preorder ==
  /\ Len(traversal(T, "preorder")) = Cardinality(Reachable(T))
  /\ Range(traversal(T, "preorder")) = Reachable(T)
  /\ traversal(T, "preorder") = PreOrder(T, root)

\* C15 witness: the pre-order traversal ran over a tree of six nodes or more,
\* one of them with a left child only
C15_Witness ==
  /\ ret.op = "preorder" /\ Len(ret.out) >= 6
  /\ \E n \in Reachable(T) : node[n].left # Nil /\ node[n].right = Nil

\* C16: map[k] on a key that is present returns the entry of k and changes
\* neither size nor tree, and an assignment through it overwrites the value of
\* that entry only; on a key that is absent it inserts an entry with the
\* default value, size grows by exactly one and the tree invariants (BST
\* order, AVL balance, exact stored heights) hold afterwards.
C16_IndexStep ==
  /\ (ret'.op = "index" /\ WasPresent(ret'.key)) =>
        /\ ret'.err = "none"
        /\ ret'.out = find(T, ret'.key)
        /\ TreeUnchanged
  /\ (ret'.op = "index_assign" /\ WasPresent(ret'.key)) =>
        /\ ret'.err = "none"
        /\ ret'.out = find(T, ret'.key)
        /\ root' = root /\ size' = size
        /\ node' = [node EXCEPT ![ret'.out].value = <<ret'.key, ret'.mapped>>]
  /\ (ret'.op \in {"index", "index_assign"} /\ ~WasPresent(ret'.key)) =>
        /\ ret'.err = "none"
        /\ size' = size + 1
        /\ ret'.out # Nil /\ ret'.out = find(TAfter, ret'.key)
        /\ node'[ret'.out].value =
             <<ret'.key, IF ret'.op = "index" THEN DefaultMapped ELSE ret'.mapped>>
        /\ \A n \in DOMAIN node : node'[n].value = node[n].value
        /\ C3_BSTOrder'
        /\ C1_AVLBalance'
        /\ C2_HeightExact'

C16_Index == [][C16_IndexStep]_vars

\* the subtrees rooted at a and at b have the same shape and, node for node,
\* the same value and the same stored height
RECURSIVE SameTree(_, _, _)
SameTree(t, a, b) ==
  IF a = Nil \/ b = Nil THEN a = b
  ELSE /\ t.node[a].value = t.node[b].value
       /\ t.node[a].height = t.node[b].height
       /\ SameTree(t, t.node[a].left, t.node[b].left)
       /\ SameTree(t, t.node[a].right, t.node[b].right)

\* the last call was a copy: tree2(tree) or tree2.copy(tree)
Copied == ret.op \in {"copy_construct", "copy"}

\* C17: the copy of any reachable tree is value-equal and structurally
\* distinct: same shape, same value and same stored height at every position
\* (so the in-order, pre-order and post-order sequences are the same), and no
\* node, child link or parent link of the copy is a node of the source.
C17_Copy ==
  Copied =>
    /\ ret.err = "none"
    /\ SameTree(T, root, tree2.root)
    /\ \A order \in Orders : to_vec_in(T2, order) = to_vec_in(T, order)
    /\ Reachable(T2) \cap Reachable(T) = {}
    /\ \A n \in Reachable(T2) :
          /\ {node[n].left, node[n].right} \subseteq Reachable(T2) \cup {Nil}
          /\ node[n].parent \in Reachable(T2) \cup {Nil}
          /\ node[n].parent = Nil <=> n = tree2.root
          /\ \A c \in {node[n].left, node[n].right} \ {Nil} : node[c].parent = n

\* C17 witness: a tree of three nodes, its root with two children, was copied
\* over a second tree that had nodes before
C17_Witness ==
  /\ ret.op = "copy" /\ HasTwoChildren(T, root)
  /\ Cardinality(Reachable(T2)) = 3

\* the step left the nodes, links, heights, values and size of the first tree
\* as they were
SourceUnchanged ==
  /\ root' = root /\ size' = size
  /\ \A n \in Reachable(T) : n \in DOMAIN node' /\ node'[n] = node[n]

\* the step left the nodes, links, heights, values and size of the second tree
\* as they were
Tree2Unchanged ==
  /\ tree2'.root = tree2.root /\ tree2'.size = tree2.size
  /\ \A n \in Reachable(T2) : n \in DOMAIN node' /\ node'[n] = node[n]

\* C18: once the second tree is a copy of the first, insert, remove and
\* destroy on the copy leave the source as it was (nodes, links, heights,
\* values, size), and insert, remove and destroy on the source leave the copy
\* as it was; copy itself leaves the source as it was.
C18_FrameStep ==
  /\ (tree2.copied /\ ret'.op \in {"tree2_insert", "tree2_remove", "tree2_destroy"}) =>
        SourceUnchanged
  /\ (tree2.copied /\ ret'.op \in {"insert", "remove", "destroy"}) => Tree2Unchanged
  /\ ret'.op \in {"copy_construct", "copy"} => SourceUnchanged

C18_Frame == [][C18_FrameStep]_vars

\* C18 witness: a node was removed from the copy, which keeps two, while
\* the source holds three nodes
C18_Witness ==
  /\ tree2.copied /\ ret.op = "tree2_remove" /\ ret.err = "none"
  /\ Cardinality(Reachable(T2)) = 2 /\ Cardinality(Reachable(T)) = 3

\* C19: after tree2(tree) or tree2.copy(tree), for any reachable source tree,
\* the empty one included, the copy's size() is the number of nodes reachable
\* from the copy's root and equals the source's size().
C19_CopySize ==
  Copied =>
    /\ tree2.size = Cardinality(Reachable(T2))
    /\ tree2.size = size

\* C20: destroy() on any reachable tree leaves the root absent and is_empty()
\* true, and every node that was in the tree with absent parent, left and
\* right links.
C20_DestroyStep ==
  ret'.op = "destroy" =>
    /\ root' = Nil
    /\ is_empty(TAfter)
    /\ destroy(T).root = Nil
    /\ \A n \in Reachable(T) :
          /\ n \in DOMAIN destroy(T).node
          /\ destroy(T).node[n].parent = Nil
          /\ destroy(T).node[n].left = Nil
          /\ destroy(T).node[n].right = Nil
          /\ n \in DOMAIN node' =>
                node'[n].parent = Nil /\ node'[n].left = Nil /\ node'[n].right = Nil

C20_Destroy == [][C20_DestroyStep]_vars

\* C20 witness: a tree of nine nodes or more was destroyed
C20_Witness == ret.op = "destroy" /\ root = Nil /\ size >= 9

\* C21: destroy() on a non-empty tree leaves size() equal to the number of
\* nodes reachable from the root, which is 0, and every insert that follows
\* keeps size() equal to the number of reachable nodes.
C21_DestroySizeStep ==
  /\ (ret'.op = "destroy" /\ root # Nil) =>
        /\ Size(TAfter) = 0
        /\ Size(TAfter) = Cardinality(Reachable(TAfter))
  /\ (ret.op = "destroy" /\ ret'.op = "insert") =>
        Size(TAfter) = Cardinality(Reachable(TAfter))
  /\ (ret'.op = "insert" /\ Size(T) = Cardinality(Reachable(T))) =>
        Size(TAfter) = Cardinality(Reachable(TAfter))

C21_DestroySize == [][C21_DestroySizeStep]_vars

\* C22: after n inserts with removes interleaved in any way, the height of
\* the tree (the number of nodes on the longest path from the root to a leaf)
\* is at most ceil(1.44 * log2(n + 2)); n is the number of insert calls that
\* added a node.
C22_HeightBound ==
  ret.op \in {"count_new", "count_insert", "count_remove"} =>
    Height(T, root) <= HeightBound(ret.out)

\* C22 witness: a remove that was interleaved with the inserts took a node out
\* and left a tree of height four
C22_Witness ==
  /\ ret.op = "count_remove" /\ ret.err = "none" /\ ret.key \notin present
  /\ size >= 6
  /\ Height(T, root) = 4

\* C23: for each of the three traversal kinds, * and ++ on an exhausted
\* iterator (the end iterator, or begin of an empty tree) fail with
\* NullPointer and leave the iterator exhausted.
C23_Exhausted ==
  /\ \A order \in Orders, what \in IterOps :
        /\ iterator_call(T, order, what, iterator_at(T, order, "end")).err = "NullPointer"
        /\ iterator_call(T, order, what, iterator_at(T, order, "end")).node = Nil
        /\ root = Nil =>
              /\ iterator_call(T, order, what, iterator_at(T, order, "begin")).err
                   = "NullPointer"
              /\ iterator_call(T, order, what, iterator_at(T, order, "begin")).node = Nil
  /\ (ret.op \in IterOps /\ ret.flag) => (ret.err = "NullPointer" /\ ret.out = Nil)

\* C23 witness: ++ was called on the end iterator of a tree that has nodes
C23_Witness ==
  /\ ret.op = "increment" /\ ret.flag /\ ret.err = "NullPointer"
  /\ Cardinality(Reachable(T)) >= 3

\* C24: the tree constructed from a sequence of values is exactly the tree
\* (root, shape, stored heights, size) that an empty tree becomes when the
\* values are inserted one at a time in the order of the sequence; the
\* construction fails, with KeyExists, exactly when the sequence repeats a key,
\* as the insert of the repeated key does.
C24_VectorBuild ==
  ret.op = "build" =>
    /\ add_nodes(NewTree("set", 1), ret.out).err = ret.err
    /\ ret.err \in {"none", "KeyExists"}
    /\ ret.err = "KeyExists" <=> Cardinality(Elements(ret.out)) < Len(ret.out)
    /\ ret.err = "none" =>
          /\ add_nodes(NewTree("set", 1), ret.out).root = root
          /\ add_nodes(NewTree("set", 1), ret.out).size = size
          /\ add_nodes(NewTree("set", 1), ret.out).node = node

\* C24 witness: five values or more were inserted with success, and a rotation
\* has moved the first of them from the root
C24_Witness ==
  /\ ret.op = "build" /\ ret.err = "none" /\ Len(ret.out) >= 5
  /\ root # NodeAddress(T, ret.out[1])

\* C25: from any tree in which every node has a balance within [-1, 1] and an
\* exact stored height, a single insert or a single remove, with its retrace
\* that stops after the first rebalance, leaves a tree in which every node has
\* a balance within [-1, 1].
C25_RetraceStep ==
  (/\ ret'.op \in {"insert", "remove"}
   /\ ret'.err = "none"
   /\ C1_AVLBalance
   /\ C2_HeightExact) => C1_AVLBalance'

C25_RetraceRestores == [][C25_RetraceStep]_vars

\* C26: whenever the retrace of an insert or of a remove (leaf, one child or
\* two children) stops at a node because the node's recomputed height equals
\* its stored height, every proper ancestor of that node has a stored height
\* of 1 + max of its children's stored heights and a balance within [-1, 1].
C26_EarlyStopStep ==
  ((InsertRetraced \/ RemoveRetraced) /\ RetraceStop.why = "unchanged") =>
    \A a \in ProperAncestors(TAfter, RetraceStop.node) :
      HeightExactAt(TAfter, a) /\ BalancedAt(TAfter, a)

C26_EarlyStop == [][C26_EarlyStopStep]_vars

\* C27: after a rebalance (single or double rotation) made by the retrace of
\* an insert or of a remove, the rebalanced subtree has the stored height its
\* ancestors saw before the retrace, and every proper ancestor of the subtree
\* has a stored height of 1 + max of its children's stored heights.
C27_RebalanceStep ==
  ((InsertRetraced \/ RemoveRetraced) /\ RetraceStop.why = "rebalance") =>
    /\ node'[node'[RetraceStop.node].parent].height
         = BeforeRetrace.node[RetraceStop.node].height
    /\ \A a \in ProperAncestors(TAfter, node'[RetraceStop.node].parent) :
          HeightExactAt(TAfter, a)

C27_Rebalance == [][C27_RebalanceStep]_vars

\* C28: in a removal of a node with two children the retrace starts at the
\* successor's former right child when the successor has one; otherwise at the
\* successor itself, in its new place, when it was the target's right child;
\* otherwise at the successor's former parent, the lowest node whose subtree
\* changed.
C28_RetraceStartStep ==
  RemovedTwoChildren =>
    \E successor \in {Successor(T, ret'.out)} :
      \E unlinked \in {remove_unlinked(T, ret'.out)} :
        /\ node[successor].right # Nil => unlinked.out = node[successor].right
        /\ (node[successor].right = Nil /\ node[ret'.out].right = successor) =>
              /\ unlinked.out = successor
              /\ unlinked.node[successor].parent = node[ret'.out].parent
        /\ (node[successor].right = Nil /\ node[ret'.out].right # successor) =>
              /\ unlinked.out = node[successor].parent
              /\ ~SameSubtree(T, unlinked, node[successor].parent)
              /\ \A d \in Subtree(T, node[successor].parent)
                            \ {node[successor].parent, successor} :
                    SameSubtree(T, unlinked, d)
        /\ node' = Release(update_node(unlinked, unlinked.out), ret'.out).node

C28_RetraceStart == [][C28_RetraceStartStep]_vars

\* C28 witness: a remove took a key out of a tree that keeps five nodes or
\* more, and the key's in-order successor now has two children, the keys below
\* the removed key on its left
C28_Witness ==
  /\ ret.op = "remove" /\ ret.err = "none" /\ ret.out # Nil /\ size >= 5
  /\ \E n \in Reachable(T) :
        /\ HasTwoChildren(T, n)
        /\ KeyCompare(ret.key, key(T, n))
        /\ \A x \in SubtreeKeys(T, node[n].left) : KeyCompare(x, ret.key)
        /\ \A m \in Reachable(T) :
              KeyCompare(ret.key, key(T, m)) => ~KeyCompare(key(T, m), key(T, n))

\* C29: in a removal of a node with two children the in-order successor (the
\* leftmost node of the target's right subtree) takes over the target's parent
\* link, left child, right child (what is left of the target's right subtree
\* once the successor is out of it) and stored height, and is the root if the
\* target was; no key or value moves between nodes: for every other key the
\* node that find returns is the same node with the same value before and
\* after the removal.
C29_SuccessorStep ==
  RemovedTwoChildren =>
    \E successor \in {Successor(T, ret'.out)} :
      \E unlinked \in {remove_unlinked(T, ret'.out)} :
        /\ successor = leftmost_of(T, node[ret'.out].right)
        /\ unlinked.node[successor].parent = node[ret'.out].parent
        /\ unlinked.node[successor].left = node[ret'.out].left
        /\ unlinked.node[successor].right =
             (IF node[ret'.out].right = successor THEN node[successor].right
              ELSE node[ret'.out].right)
        /\ unlinked.node[successor].height = node[ret'.out].height
        /\ unlinked.node[unlinked.node[successor].left].parent = successor
        /\ unlinked.node[successor].right # Nil =>
              unlinked.node[unlinked.node[successor].right].parent = successor
        /\ node[ret'.out].parent # Nil =>
              successor \in {unlinked.node[node[ret'.out].parent].left,
                             unlinked.node[node[ret'.out].parent].right}
        /\ root = ret'.out => unlinked.root = successor
        /\ root # ret'.out => unlinked.root = root
        /\ \A m \in DOMAIN node : unlinked.node[m].value = node[m].value
        /\ node' = Release(update_node(unlinked, unlinked.out), ret'.out).node
        /\ find(TAfter, ret'.key) = Nil
        /\ \A k \in present \ {ret'.key} :
              /\ find(T, k) # Nil
              /\ find(TAfter, k) = find(T, k)
              /\ node'[find(T, k)].value = node[find(T, k)].value

C29_Successor == [][C29_SuccessorStep]_vars

\* C29 witness: a remove took out a key and the key's in-order successor is
\* now the root, with two children, of a tree of four nodes or more
C29_Witness ==
  /\ ret.op = "remove" /\ ret.err = "none" /\ ret.out # Nil /\ size >= 4
  /\ HasTwoChildren(T, root)
  /\ KeyCompare(ret.key, key(T, root))
  /\ \A x \in SubtreeKeys(T, node[root].left) : KeyCompare(x, ret.key)

\* C30: a removal of a leaf detaches it from its parent, or leaves the tree
\* empty (root absent, size 0) if the leaf was the root; a removal of a node
\* with exactly one child puts that child in the target's slot of the parent,
\* with the target's parent as its parent, or makes it the root, with no
\* parent, if the target was the root.
C30_UnlinkStep ==
  /\ RemovedLeaf =>
        \E unlinked \in {remove_unlinked(T, ret'.out)} :
          /\ root = ret'.out =>
                (unlinked.root = Nil /\ root' = Nil /\ size' = 0 /\ is_empty(TAfter))
          /\ root # ret'.out =>
                /\ unlinked.root = root
                /\ SlotReplaced(T, unlinked, node[ret'.out].parent, ret'.out, Nil)
                /\ unlinked.node[ret'.out].parent = Nil
          /\ node' = Release(remove_retrace(unlinked, unlinked.out), ret'.out).node
  /\ RemovedOneChild =>
        \E unlinked \in {remove_unlinked(T, ret'.out)} :
          /\ unlinked.node[OnlyChild(T, ret'.out)].parent = node[ret'.out].parent
          /\ root = ret'.out =>
                /\ unlinked.root = OnlyChild(T, ret'.out)
                /\ unlinked.node[OnlyChild(T, ret'.out)].parent = Nil
          /\ root # ret'.out =>
                /\ unlinked.root = root
                /\ SlotReplaced(T, unlinked, node[ret'.out].parent, ret'.out,
                                OnlyChild(T, ret'.out))
          /\ node' = Release(remove_retrace(unlinked, unlinked.out), ret'.out).node

C30_Unlink == [][C30_UnlinkStep]_vars

\* C30 witness: a remove took a node out of a tree of two nodes (the leaf, or
\* the root with its one child) and left a single node, the root
C30_Witness ==
  /\ ret.op = "remove" /\ ret.err = "none" /\ ret.out # Nil
  /\ size = 1 /\ root # Nil /\ is_leaf(T, root) /\ node[root].parent = Nil

\* the child slots (<<m, "left">>, <<m, "right">>) of the nodes of the heap of
\* t, and the root pointer of t (<<Nil, "root">>), that refer to n
SlotsTo(t, n) ==
  {<<m, "left">> : m \in {x \in DOMAIN t.node : t.node[x].left = n}}
    \cup {<<m, "right">> : m \in {x \in DOMAIN t.node : t.node[x].right = n}}
    \cup (IF t.root = n THEN {<<Nil, "root">>} ELSE {})

\* the node graph of t is a tree with consistent back-references
ProperTree(t) ==
  /\ t.root # Nil => t.node[t.root].parent = Nil
  /\ \A n \in Reachable(t) :
        /\ \A c \in {t.node[n].left, t.node[n].right} \ {Nil} : t.node[c].parent = n
        /\ Cardinality(SlotsTo(t, n)) = 1

\* a tree object about to take a copy: AVLTreeBase(const AVLTreeBase &) with
\* _root null, its nodes in the heap of t
CopyTarget(t) == [t EXCEPT !.base = Tree2Base, !.root = Nil, !.size = 0]

\* C31: in every reachable tree (so after every insert and remove), after a
\* left or right rotation at any of its nodes that has the pivot child, and in
\* the copy made of it, the node graph is a proper tree with consistent
\* back-references: the root's parent is absent, the parent link of every
\* child refers to the node that holds it as left or right child, and every
\* node is referred to by exactly one child slot or by the root pointer.
C31_ProperTree ==
  /\ ProperTree(T)
  /\ \A n \in Reachable(T) :
        /\ node[n].right # Nil => ProperTree(rotate_left(T, n))
        /\ node[n].left # Nil => ProperTree(rotate_right(T, n))
  /\ ProperTree(copy(CopyTarget(T), root))

\* C31 witness: a remove unlinked a node and left a tree of five nodes or
\* more, in which a node below the root has a right child that has a left
\* child (a left rotation there moves a subtree)
C31_Witness ==
  /\ ret.op = "remove" /\ ret.out # Nil
  /\ Cardinality(Reachable(T)) >= 5
  /\ \E n \in Reachable(T) :
        /\ node[n].parent # Nil /\ node[n].right # Nil
        /\ node[node[n].right].left # Nil

\* the calls of rotate_left and rotate_right that rebalance_node(n) makes on
\* the tree t, in order, each with the tree it is made on
RotationCalls(t, n) ==
  IF balance(t, n) = 0 THEN <<>>
  ELSE IF balance(t, n) < 0 THEN
    IF child_balance(t, t.node[n].left) > 0
      THEN <<[rotate |-> "left", tree |-> t, node |-> t.node[n].left],
             [rotate |-> "right", tree |-> rotate_left(t, t.node[n].left), node |-> n]>>
    ELSE <<[rotate |-> "right", tree |-> t, node |-> n]>>
  ELSE
    IF child_balance(t, t.node[n].right) < 0
      THEN <<[rotate |-> "right", tree |-> t, node |-> t.node[n].right],
             [rotate |-> "left", tree |-> rotate_right(t, t.node[n].right), node |-> n]>>
    ELSE <<[rotate |-> "left", tree |-> t, node |-> n]>>

\* the keys of the whole tree, in order
InOrderKeys(t) == KeysOf(t, InOrder(t, t.root))

\* u is t after a rotation at n with the pivot p, whose child c on the side
\* of n went over to n: what the rotation must have done but for the links
\* of n and c
RotatedAbout(t, u, n, p) ==
  /\ u.err = "none"
  /\ InOrderKeys(u) = InOrderKeys(t)
  /\ IF t.root = n THEN u.root = p
     ELSE /\ u.root = t.root
          /\ SlotReplaced(t, u, t.node[n].parent, n, p)
  /\ u.node[p].parent = t.node[n].parent
  /\ \A m \in (DOMAIN t.node) \ {n, p} : u.node[m].height = t.node[m].height

\* rotate_left(n) on t, n with a right child, did what a left rotation does
RotatedLeft(t, n) ==
  \E p \in {t.node[n].right} :
    \E u \in {rotate_left(t, n)} :
      /\ RotatedAbout(t, u, n, p)
      /\ u.node[n].right = t.node[p].left
      /\ u.node[p].left = n

\* rotate_right(n) on t, n with a left child, did what a right rotation does
RotatedRight(t, n) ==
  \E p \in {t.node[n].left} :
    \E u \in {rotate_right(t, n)} :
      /\ RotatedAbout(t, u, n, p)
      /\ u.node[n].left = t.node[p].right
      /\ u.node[p].right = n

\* C32: a left or right rotation applied to a node whose pivot child exists
\* keeps the in-order key sequence of the whole tree, puts the pivot in the
\* rotation root's former slot (in the root pointer when the rotation root was
\* the root), makes the pivot's opposite-side child the rotation root's child,
\* and changes the stored height of no node but the rotation root and the
\* pivot: for a rotation at any node of any reachable tree, and for each
\* rotation that the retrace of an insert or of a remove calls.
C32_RotationOfAny ==
  \A n \in Reachable(T) :
    /\ node[n].right # Nil => RotatedLeft(T, n)
    /\ node[n].left # Nil => RotatedRight(T, n)

C32_RotationStep ==
  (InsertRetraced \/ RemoveRetraced) =>
    \E before \in {BeforeRetrace} :
      \E stop \in {update_stop(before, before.out)} :
        stop.why = "rebalance" =>
          \E calls \in {RotationCalls(stop.tree, stop.node)} :
            /\ Len(calls) >= 1
            /\ \A i \in 1..Len(calls) :
                  \E t \in {calls[i].tree} :
                    /\ calls[i].rotate = "left" =>
                          /\ t.node[calls[i].node].right # Nil
                          /\ RotatedLeft(t, calls[i].node)
                    /\ calls[i].rotate = "right" =>
                          /\ t.node[calls[i].node].left # Nil
                          /\ RotatedRight(t, calls[i].node)

C32_Rotation == []C32_RotationOfAny /\ [][C32_RotationStep]_vars

\* C32 witness: the node an insert added has two children and a parent: a
\* double rotation below the root has made it the root of the rebalanced
\* subtree
C32_Witness ==
  /\ ret.op = "insert" /\ ret.err = "none" /\ ret.out # Nil
  /\ HasTwoChildren(T, ret.out)
  /\ node[ret.out].parent # Nil

\* the number of nodes from n up to the root, n included
Depth(t, n) == Cardinality(ProperAncestors(t, n)) + 1

\* the while loop of update_node, entered with update, leaves the loop (by
\* a return, or by the call of rebalance_node that a return follows) within
\* fuel iterations
RECURSIVE ReturnsWithin(_, _, _)
ReturnsWithin(t, update, fuel) ==
  /\ fuel > 0
  /\ \E it \in {update_iteration(t, update)} :
        it.next # "update_node" \/ ReturnsWithin(it.tree, it.update, fuel - 1)

\* the while loop of update_node, entered with update, comes to the root with
\* a stored height that differs from the recomputed one and a balance within
\* [-1, 1]
RECURSIVE ReachesRootChanged(_, _, _)
ReachesRootChanged(t, update, fuel) ==
  /\ fuel > 0
  /\ \E it \in {update_iteration(t, update)} :
        /\ it.next = "update_node"
        /\ \/ t.node[update].parent = Nil
           \/ ReachesRootChanged(it.tree, it.update, fuel - 1)

\* C33: the retrace terminates from every start node of every reachable
\* tree: update_node(n) leaves its loop within as many iterations as there
\* are nodes from n up to the root, plus one for the case where it comes to
\* the root with a changed height and, the root having no parent, looks at the
\* root once more; the local update is never null; and a call of insert or
\* remove that has entered update_node leaves it.
C33_EveryStart ==
  /\ Retracing => ret.out \in Reachable(T)
  /\ ~Retracing =>
       \A n \in Reachable(T) :
         /\ ReturnsWithin(T, n, Depth(T, n) + 1)
         /\ ~ReachesRootChanged(T, n, Depth(T, n)) => ReturnsWithin(T, n, Depth(T, n))

C33_RetraceTerminates == []C33_EveryStart /\ (Retracing ~> ~Retracing)

\* C33 witness: the loop of update_node, called by an insert into a tree of
\* three nodes or more, is at the root, and the root's stored height differs
\* from the recomputed one: the loop goes on, at the root again
C33_Witness ==
  /\ ret.at = "update_node" /\ ret.op = "insert"
  /\ ret.out = root /\ Cardinality(Reachable(T)) >= 4
  /\ node[root].height # new_height(T, root)
  /\ balance(T, root) \in {-1, 0, 1}
\* the keys search is called with: the keys of the domain and one key on
\* either side of it
SearchKeys == 0..(MaxTreeKey + 1)

\* path is a walk down the tree from the root in which every entry but the
\* last records the branch taken to the next one
WalkFromRoot(t, path) ==
  /\ Len(path) >= 1
  /\ path[1][1] = t.root
  /\ \A i \in 1..(Len(path) - 1) :
        /\ path[i][2] \in {-1, 1}
        /\ path[i][2] = -1 => path[i + 1][1] = t.node[path[i][1]].left
        /\ path[i][2] = 1 => path[i + 1][1] = t.node[path[i][1]].right
  /\ \A i \in 1..Len(path) : path[i][1] # Nil

\* C34: search(k) returns an empty sequence on an empty tree; on a non-empty
\* tree it returns a non-empty path that starts at the root, in which each
\* next node is the left child (branch -1) or the right child (branch +1) of
\* the one before it, as the branch recorded there says, and whose last entry
\* has branch 0 exactly when k is in the tree (and then holds k).
C34_Search ==
  \A k \in SearchKeys :
    \E path \in {search(T, k)} :
      /\ root = Nil => path = <<>>
      /\ root # Nil =>
            /\ WalkFromRoot(T, path)
            /\ rbegin(path)[2] \in {-1, 0, 1}
            /\ rbegin(path)[2] = 0 <=> k \in present
            /\ rbegin(path)[2] = 0 <=> k \in SubtreeKeys(T, root)
            /\ rbegin(path)[2] = 0 => key(T, rbegin(path)[1]) = k

\* C34 witness: a tree of five nodes or more in which the search of a key
\* that is there, and the search of a key that is not, each return a path of
\* three entries or more
C34_Witness ==
  /\ Cardinality(Reachable(T)) >= 5
  /\ \E k \in present : Len(search(T, k)) >= 3
  /\ \E k \in SearchKeys \ present : Len(search(T, k)) >= 3

\* the step assigned a mapped value of an entry that was there: through
\* map[k] or map.get(k) with k in the map, or through a value iterator
AssignedEntry ==
  \/ ret'.op \in {"index_assign", "get_assign"} /\ WasPresent(ret'.key)
  \/ ret'.op = "iter_assign"

\* the nodes whose mapped value the step assigned
AssignedNodes ==
  IF ret'.op = "iter_assign" THEN Range(traversal(T, ret'.key))
  ELSE {find(T, ret'.key)}

\* C35: in a map, changing the mapped value (the second component) of an
\* entry through indexed access, through get or through a value iterator
\* changes no key, link, height or size, and every key present before is
\* present afterwards (and no other); the entries assigned hold the new
\* mapped value, the others the one they had.
C35_AssignStep ==
  AssignedEntry =>
    /\ ret'.err = "none"
    /\ root' = root /\ size' = size
    /\ DOMAIN node' = DOMAIN node
    /\ \A n \in DOMAIN node :
          /\ node'[n].value[1] = node[n].value[1]
          /\ node'[n].height = node[n].height
          /\ node'[n].parent = node[n].parent
          /\ node'[n].left = node[n].left
          /\ node'[n].right = node[n].right
          /\ node'[n].value[2] =
               (IF n \in AssignedNodes THEN ret'.mapped ELSE node[n].value[2])
    /\ \A k \in AssignKeys :
          /\ contains(TAfter, k) <=> contains(T, k)
          /\ find(TAfter, k) = find(T, k)
    /\ present' = present

C35_Assign == [][C35_AssignStep]_vars

\* C35 witness: a loop over a value iterator has assigned a mapped value
\* other than the default one to the three entries of a map
C35_Witness ==
  /\ ret.op = "iter_assign" /\ ret.mapped # DefaultMapped
  /\ Cardinality(Reachable(T)) >= 3
  /\ \A n \in Reachable(T) : node[n].value[2] = ret.mapped

\* C36: after any sequence of inserts into an initially empty tree, those
\* that fail included and with no remove, every node satisfies the AVL
\* balance invariant: the heights of its two subtrees differ by at most 1,
\* by the stored heights of its children and by the heights the subtrees have.
C36_InsertOnlyBalance ==
  \A n \in Reachable(T) :
    /\ BalancedAt(T, n)
    /\ Abs(Height(T, node[n].left) - Height(T, node[n].right)) <= 1

\* C36 witness: an insert has failed with KeyExists on a tree of six nodes
\* that is three nodes high, its root with two children
C36_Witness ==
  /\ ret.op = "insert" /\ ret.err = "KeyExists"
  /\ Cardinality(Reachable(T)) >= 6
  /\ Height(T, root) = 3
  /\ HasTwoChildren(T, root)

\* the exceptions the public calls are documented to throw on a wrong key
KeyErrors == {"KeyExists", "KeyNotFound"}

\* C37: in every tree reachable by insert and remove calls, no public insert,
\* remove, find, get or contains call, for any key, raises NullPointer,
\* NodeKeysMatch, NodeNotFound (or EmptyTree), none dereferences a null
\* pointer (a rotation at a node whose pivot child is absent, the last entry
\* of an empty search path), and the only exceptions that escape are
\* KeyExists (insert of a key that is there) and KeyNotFound (remove and get
\* of a key that is not there, on a tree that is not empty).
C37_NoInternalError ==
  /\ ret.err \in {"none"} \cup KeyErrors
  /\ \A k \in SearchKeys :
        /\ insert(T, k).err = (IF k \in present THEN "KeyExists" ELSE "none")
        /\ remove(T, k).err = (IF k \notin present /\ root # Nil THEN "KeyNotFound"
                               ELSE "none")
        /\ get(T, k).err = (IF k \notin present THEN "KeyNotFound" ELSE "none")
        /\ root # Nil => Len(search(T, k)) >= 1
        /\ find(T, k) # Nil <=> k \in present
        /\ contains(T, k) <=> k \in present

\* C37 witness: a remove has failed with KeyNotFound on a tree of five nodes
\* or more, and there is a key whose insert rotates at the root and a key
\* whose remove does
C37_Witness ==
  /\ ret.op = "remove" /\ ret.err = "KeyNotFound"
  /\ Cardinality(Reachable(T)) >= 5
  /\ \E k \in TreeKeys : insert(T, k).err = "none" /\ insert(T, k).root # root
  /\ \E k \in TreeKeys :
        /\ remove(T, k).err = "none" /\ remove(T, k).root # root
        /\ key(T, root) # k

\* the step is a remove that returned normally and unlinked a node
RemovedNode == ret'.op = "remove" /\ ret'.err = "none" /\ ret'.out # Nil

\* C38: after a successful remove(k) the removed node has absent parent,
\* left and right links, and no node that remains in the tree, nor the root
\* pointer, refers to it (by a parent, left or right link): when remove
\* returns, and, the node being freed then, in the tree that is left.
C38_RemovedStep ==
  RemovedNode =>
    \E t \in {remove(T, ret'.key)} :
      /\ t.out = ret'.out
      /\ key(T, ret'.out) = ret'.key
      /\ t.node[ret'.out].parent = Nil
      /\ t.node[ret'.out].left = Nil
      /\ t.node[ret'.out].right = Nil
      /\ ret'.links = NoLinks
      /\ Referrers(t, ret'.out) = {}
      /\ root' # ret'.out
      /\ ret'.out \notin Reachable(TAfter)
      /\ \A m \in DOMAIN node' :
            ret'.out \notin {node'[m].parent, node'[m].left, node'[m].right}
      /\ ret'.out \notin DOMAIN node'

C38_Removed == [][C38_RemovedStep]_vars

\* C38 witness: a remove took out a key that lies between two keys of the
\* tree, which keeps five nodes or more, and the node removed was freed
C38_Witness ==
  /\ ret.op = "remove" /\ ret.err = "none" /\ ret.out # Nil
  /\ ret.out \notin DOMAIN node
  /\ Cardinality(Reachable(T)) >= 5
  /\ \E a \in present : KeyCompare(a, ret.key)
  /\ \E b \in present : KeyCompare(ret.key, b)

\* C39: Node::compare(key) is a three-way comparison derived from the
\* less-than comparator: it returns 0 exactly when neither key < node.key nor
\* node.key < key (for the total order of the keys: when the keys are equal),
\* -1 exactly when key < node.key, and +1 otherwise (when node.key < key); so
\* at every node of a search exactly one of the three branches is taken: the
\* branch recorded with a node of the path is what compare returns there,
\* and no node is on the path twice.
C39_Compare ==
  \A k \in SearchKeys :
    /\ \A n \in Reachable(T) :
          \E branch \in {compare(T, n, k)} :
            /\ branch \in {-1, 0, 1}
            /\ branch = 0 <=> (~KeyCompare(k, key(T, n)) /\ ~KeyCompare(key(T, n), k))
            /\ branch = 0 <=> k = key(T, n)
            /\ branch = -1 <=> KeyCompare(k, key(T, n))
            /\ branch = 1 <=> KeyCompare(key(T, n), k)
    /\ \E path \in {search(T, k)} :
          /\ \A i \in 1..Len(path) : path[i][2] = compare(T, path[i][1], k)
          /\ \A i, j \in 1..Len(path) : path[i][1] = path[j][1] => i = j

\* C39 witness: in a tree of five nodes or more the search of a key that is
\* there goes left at one node, right at another and ends on the key
C39_Witness ==
  /\ Cardinality(Reachable(T)) >= 5
  /\ \E k \in present :
        \E path \in {search(T, k)} :
          /\ \E i \in 1..Len(path) : path[i][2] = -1
          /\ \E i \in 1..Len(path) : path[i][2] = 1
          /\ rbegin(path)[2] = 0

====
